---- MODULE Spec2Model ----
(***************************************************************************)
(* A model of four components of comet:                                    *)
(*   - the stream endpoint and its OngoingSearch dedup marker              *)
(*     (src/comet/api/stream.py),                                          *)
(*   - the BandwidthMonitor (src/comet/utils/bandwidth_monitor.py),        *)
(*   - the DatabaseLogHandler (src/comet/utils/logger.py),                 *)
(*   - the user accounts (src/comet/utils/user_management.py).             *)
(* Every coroutine is cut at its suspension points (each await): one       *)
(* action is the code that runs between two of them, and the database      *)
(* statement an await issues takes effect in the action that resumes it.   *)
(* Each component has specifications of its own; the variables of the     *)
(* other components stay at their initial values.                          *)
(***************************************************************************)
EXTENDS Integers, Sequences, FiniteSets, TLC

VARIABLES
    now,                \* time.time(), in seconds
    \* ---- stream.py
    pc,                 \* [Requests -> position of the request's coroutine]
    media_id,           \* [Requests -> the path parameter]
    debridService,      \* [Requests -> config["debridService"]]
    metadata,           \* [Requests -> "pending", "none" (None) or "found"]
    torrents,           \* [Requests -> torrent_manager.torrents (info hashes)]
    cached,             \* [Requests -> the local flag of line 78/95]
    wakeAt,             \* [Requests -> end of the pending asyncio.sleep(10)]
    background_tasks,   \* [Requests -> media ids handed to add_task]
    response,           \* [Requests -> the returned "streams" list]
    calls,              \* [Requests -> calls the request has made so far]
    loads,              \* [Requests -> what each get_cached_torrents returned]
    ongoing_searches,   \* table: [Media -> timestamp of the row, or NoRow]
    torrent_cache,      \* table behind get_cached_torrents: [Media -> hashes]
    inserted_by,        \* [Media -> the request whose INSERT stored the row]
    polled,             \* [Requests -> its poll loop: start, last query, row]
    \* ---- bandwidth_monitor.py
    connections,        \* self._connections
    global_stats,       \* self._global_stats
    last_synced_bytes,  \* self._last_synced_bytes
    session_start,      \* self._session_start
    cleanup_task,       \* self._cleanup_task: the loop it refers to, or 0
    db_sync_task,       \* self._db_sync_task: the loop it refers to, or 0
    initialized,        \* self._initialized
    cleanup_loops,      \* the tasks running _cleanup_inactive_connections
    sync_loops,         \* the tasks running _sync_to_database
    mpc,                \* [Callers -> position of the caller's coroutine]
    call,               \* [Callers -> the metrics its call works on]
    bandwidth_stats,    \* table: total_bytes of the row id = 1, or NoRow
    session_stats,      \* table: the row id = 1, or NoSession
    ip_stream_stats,    \* table: [Ips -> the row of the address, or NoIpRow]
    started,            \* connection ids handed to start_connection so far
    reaped,             \* connection ids a cleanup cycle has listed
    ledger,             \* [ConnIds -> how its end_connection went]
    loaded,             \* number of initialize() runs that read the tables
    init_current_time,       \* initialize's local current_time, per caller
    reset_call,         \* the reset_session call under way, or NoReset
    resets,             \* number of reset_session calls that zeroed the memory
    resets_done,        \* the last of them whose UPDATE returned
    session_written,    \* the last write of a sync cycle to session_stats
    shut_down,          \* the loops as shutdown() left them, or NotShutDown
    \* ---- logger.py
    log_database,       \* self.database is set
    log_queue,          \* self.log_queue
    log_sync,           \* the task running _sync_logs_to_db
    persistent_logs,    \* table: the rows, in insertion order
    written,            \* number of write calls so far
    purged,             \* messages of the rows the DELETEs removed
    \* ---- user_management.py
    users,              \* table: the rows, in insertion order
    next_user_id,       \* the id the next INSERT gets
    generated,          \* number of tokens generate_user_token returned
    update_pending,     \* id of the update_user awaiting its read, or 0
    returned,           \* the call of the last step and what it returned
    before              \* the users table before the last step

streamVars == <<pc, media_id, debridService, metadata, torrents, cached,
                wakeAt, background_tasks, response, calls, loads,
                ongoing_searches, torrent_cache, inserted_by, polled>>

adminVars ==
    <<reset_call, resets, resets_done, session_written, shut_down>>

monitorVars == <<connections, global_stats, last_synced_bytes, session_start,
                 cleanup_task, db_sync_task, initialized, cleanup_loops,
                 sync_loops, mpc, call, bandwidth_stats, session_stats,
                 ip_stream_stats, started, reaped, ledger, loaded,
                 init_current_time, adminVars>>

logVars ==
    <<log_database, log_queue, log_sync, persistent_logs, written, purged>>

userVars ==
    <<users, next_user_id, generated, update_pending, returned, before>>

otherThanStream == <<monitorVars, logVars, userVars>>
otherThanMonitor == <<streamVars, logVars, userVars>>
otherThanLog == <<streamVars, monitorVars, userVars>>
otherThanUsers == <<streamVars, monitorVars, logVars>>

vars == <<now, streamVars, monitorVars, logVars, userVars>>

(***************************************************************************)
(* Bounds of the model.                                                    *)
(***************************************************************************)
NumRequests == 2
MaxTime == 140

Requests == 1..NumRequests
Media == {"tt1"}
InfoHashes == {"h1"}
Services == {"torrent", "realdebrid"}
TickSteps == {60, 70}

NoRow == -1
NoSession ==
    [session_start |-> -1, session_bytes |-> 0, peak_concurrent |-> 0]
NoMedia == "none"
NoRequest == 0
Departed == -1
NotPolling == [start |-> 0, last |-> 0, timestamp |-> NoRow]

(***************************************************************************)
(* stream.py: constants of the dedup marker.                               *)
(***************************************************************************)
MARKER_TTL == 120
POLL_INTERVAL == 10

\* The emoji of the stream names, by code point.
WARNING_SIGN == "U+26A0 U+FE0F"
MAGNET == "U+1F9F2"
HIGH_VOLTAGE == "U+26A1"

\* The WHERE clause of lines 80 and 87: timestamp + 120 >= :current_time
LiveForever(ts, t) == ts # NoRow
LiveStrict(ts, t) == ts # NoRow /\ ts + MARKER_TTL > t
Live(ts, t) == ts # NoRow /\ ts + MARKER_TTL >= t

\* fetch_one of lines 79-82 and 86-89: the row, or none
fetch_ongoing_search(m) == Live(ongoing_searches[m], now)

\* media_id is the key of ongoing_searches: a second row for the same
\* media_id is the conflict that OR IGNORE / ON CONFLICT DO NOTHING skips.
Conflicts(tbl, m) == tbl[m] # NoRow

\* INSERT OR IGNORE INTO ongoing_searches ... (lines 98-101)
InsertOrIgnore(tbl, m, ts) ==
    IF Conflicts(tbl, m) THEN tbl ELSE [tbl EXCEPT ![m] = ts]

\* DELETE FROM ongoing_searches WHERE media_id = :media_id (lines 16-20)
DeleteOngoing(tbl, m) == [tbl EXCEPT ![m] = NoRow]

\* get_debrid_extension (comet.debrid.manager): a short label per service
get_debrid_extension(svc) == IF svc = "torrent" THEN "TORRENT" ELSE "RD"

\* rtn_data.resolution of a ranked torrent
Resolution(h) == "1080p"

\* line 120
debrid_emoji_always_lightning(svc) == HIGH_VOLTAGE
debrid_emoji(svc) == IF svc = "torrent" THEN MAGNET ELSE HIGH_VOLTAGE

\* line 130: f"[{debrid_extension}{debrid_emoji}] Comet {rtn_data.resolution}"
StreamName(svc, h) ==
    <<"[", get_debrid_extension(svc), debrid_emoji(svc), "]", " Comet ",
      Resolution(h)>>

\* lines 42-50: the placeholder, "[<warning sign>] Comet"
PlaceholderStream ==
    [name |-> <<"[", WARNING_SIGN, "]", " Comet">>,
     description |-> "Unable to get metadata."]

\* lines 123-147: one entry per ranked torrent
StreamEntry(svc, h) == [name |-> StreamName(svc, h), description |-> h]

NoResponse == <<>>

\* torrent_manager.sorted_torrents: the hashes rank_torrents kept, best first
Rankings(S) ==
    UNION {{s \in [1..n -> S] : \A i, j \in 1..n : i # j => s[i] # s[j]} :
           n \in 0..Cardinality(S)}

StreamInit ==
    /\ pc = [r \in Requests |-> "idle"]
    /\ media_id = [r \in Requests |-> NoMedia]
    /\ debridService = [r \in Requests |-> "torrent"]
    /\ metadata = [r \in Requests |-> "pending"]
    /\ torrents = [r \in Requests |-> {}]
    /\ cached = [r \in Requests |-> FALSE]
    /\ wakeAt = [r \in Requests |-> 0]
    /\ background_tasks = [r \in Requests |-> {}]
    /\ response = [r \in Requests |-> NoResponse]
    /\ calls = [r \in Requests |-> {}]
    /\ loads = [r \in Requests |-> <<>>]
    /\ ongoing_searches = [m \in Media |-> NoRow]
    /\ torrent_cache \in [Media -> SUBSET InfoHashes]
    /\ inserted_by = [m \in Media |-> NoRequest]
    /\ polled = [r \in Requests |-> NotPolling]

Called(r, c) == calls' = [calls EXCEPT ![r] = @ \cup c]

\* what a get_cached_torrents call leaves in torrent_manager.torrents
LoadResult(m) == IF torrent_cache[m] = {} THEN "empty" ELSE "populated"

\* lines 25-40: the request arrives, config_check, fetch_metadata_and_aliases
\* is awaited
Arrive(r, m, svc) ==
    /\ pc[r] = "idle"
    /\ pc' = [pc EXCEPT ![r] = "metadata"]
    /\ media_id' = [media_id EXCEPT ![r] = m]
    /\ debridService' = [debridService EXCEPT ![r] = svc]
    /\ UNCHANGED <<now, otherThanStream, inserted_by, polled, metadata, loads, torrents, cached,
                   wakeAt,
                   background_tasks, response, calls, ongoing_searches,
                   torrent_cache>>

\* lines 41-50: metadata is None
MetadataMissingFallsThrough(r) ==
    /\ pc[r] = "metadata"
    /\ metadata' = [metadata EXCEPT ![r] = "none"]
    /\ pc' = [pc EXCEPT ![r] = "load_cache"]
    /\ Called(r, {"get_cached_torrents"})
    /\ response' = [response EXCEPT ![r] = <<PlaceholderStream>>]
    /\ UNCHANGED <<now, otherThanStream, inserted_by, polled, loads, media_id, debridService,
                   torrents, cached,
                   wakeAt, background_tasks, ongoing_searches, torrent_cache>>
MetadataMissing(r) ==
    /\ pc[r] = "metadata"
    /\ pc' = [pc EXCEPT ![r] = "responded"]
    /\ metadata' = [metadata EXCEPT ![r] = "none"]
    /\ response' = [response EXCEPT ![r] = <<PlaceholderStream>>]
    /\ UNCHANGED <<now, otherThanStream, inserted_by, polled, loads, media_id, debridService,
                   torrents, cached, wakeAt,
                   background_tasks, calls, ongoing_searches, torrent_cache>>

\* lines 52-74: metadata found; get_cached_torrents is awaited
MetadataFound(r) ==
    /\ pc[r] = "metadata"
    /\ metadata' = [metadata EXCEPT ![r] = "found"]
    /\ pc' = [pc EXCEPT ![r] = "load_cache"]
    /\ Called(r, {"get_cached_torrents"})
    /\ UNCHANGED <<now, otherThanStream, inserted_by, polled, loads, media_id, debridService,
                   torrents, cached, wakeAt,
                   background_tasks, response, ongoing_searches, torrent_cache>>

\* lines 74-82: get_cached_torrents returns; with no torrent the request
\* sets cached = False and awaits the first fetch_one
CacheLoaded(r) ==
    /\ pc[r] = "load_cache"
    /\ torrents' = [torrents EXCEPT ![r] = torrent_cache[media_id[r]]]
    /\ loads' = [loads EXCEPT ![r] = Append(@, LoadResult(media_id[r]))]
    /\ IF torrent_cache[media_id[r]] = {}
       THEN /\ cached' = [cached EXCEPT ![r] = FALSE]
            /\ pc' = [pc EXCEPT ![r] = "fetch_one"]
            /\ Called(r, {"fetch_one"})
       ELSE /\ pc' = [pc EXCEPT ![r] = "rank"]
            /\ UNCHANGED <<cached, calls>>
    /\ UNCHANGED <<now, otherThanStream, inserted_by, polled, metadata, media_id, debridService,
                   wakeAt, background_tasks,
                   response, ongoing_searches, torrent_cache>>

\* lines 79-85 and 97-101: the first fetch_one returns; a live row sends the
\* request to sleep, none sends it to the insert
FirstQueryStep(r) ==
    /\ pc[r] = "fetch_one"
    /\ IF fetch_ongoing_search(media_id[r])
       THEN /\ pc' = [pc EXCEPT ![r] = "sleep"]
            /\ wakeAt' = [wakeAt EXCEPT ![r] = now + POLL_INTERVAL]
            /\ Called(r, {"sleep"})
       ELSE /\ pc' = [pc EXCEPT ![r] = "insert"]
            /\ Called(r, {"insert"})
            /\ UNCHANGED wakeAt
    /\ UNCHANGED <<now, otherThanStream, metadata, loads, media_id,
                   debridService, torrents, cached,
                   background_tasks, response, ongoing_searches, torrent_cache>>
FirstQuery(r) ==
    /\ FirstQueryStep(r)
    /\ UNCHANGED <<inserted_by, polled>>

\* the same step, with the request's entry into the poll loop recorded
FirstQueryRecorded(r) ==
    /\ FirstQueryStep(r)
    /\ polled' =
           IF fetch_ongoing_search(media_id[r])
           THEN [polled EXCEPT ![r] =
                    [start |-> now, last |-> now,
                     timestamp |-> ongoing_searches[media_id[r]]]]
           ELSE polled
    /\ UNCHANGED inserted_by

\* lines 85-89: the sleep is over; fetch_one is awaited again
Wake(r) ==
    /\ pc[r] = "sleep"
    /\ now >= wakeAt[r]
    /\ pc' = [pc EXCEPT ![r] = "poll"]
    /\ wakeAt' = [wakeAt EXCEPT ![r] = 0]
    /\ UNCHANGED <<now, otherThanStream, inserted_by, polled, metadata, loads, media_id,
                   debridService, torrents, cached,
                   background_tasks, response, calls, ongoing_searches,
                   torrent_cache>>

\* lines 84-93: the poll's fetch_one returns; a live row sends the request
\* back to sleep, none ends the loop and get_cached_torrents is awaited
PollQueryStep(r) ==
    /\ pc[r] = "poll"
    /\ IF fetch_ongoing_search(media_id[r])
       THEN /\ pc' = [pc EXCEPT ![r] = "sleep"]
            /\ wakeAt' = [wakeAt EXCEPT ![r] = now + POLL_INTERVAL]
            /\ UNCHANGED calls
       ELSE /\ pc' = [pc EXCEPT ![r] = "recheck_cache"]
            /\ Called(r, {"get_cached_torrents"})
            /\ UNCHANGED wakeAt
    /\ UNCHANGED <<now, otherThanStream, metadata, loads, media_id,
                   debridService, torrents, cached,
                   background_tasks, response, ongoing_searches, torrent_cache>>
PollQuery(r) ==
    /\ PollQueryStep(r)
    /\ UNCHANGED <<inserted_by, polled>>

\* the same step, with the query and the row it found recorded
PollQueryRecorded(r) ==
    /\ PollQueryStep(r)
    /\ polled' =
           IF fetch_ongoing_search(media_id[r])
           THEN [polled EXCEPT ![r] =
                    [@ EXCEPT !.last = now,
                              !.timestamp = ongoing_searches[media_id[r]]]]
           ELSE [polled EXCEPT ![r] = NotPolling]
    /\ UNCHANGED inserted_by

\* lines 91-101: the re-check returns; a populated cache sets cached = True
\* and skips the insert and the scrape
RecheckCacheAlwaysSearches(r) ==
    /\ pc[r] = "recheck_cache"
    /\ torrents' = [torrents EXCEPT ![r] = torrent_cache[media_id[r]]]
    /\ loads' = [loads EXCEPT ![r] = Append(@, LoadResult(media_id[r]))]
    /\ pc' = [pc EXCEPT ![r] = "insert"]
    /\ Called(r, {"insert"})
    /\ UNCHANGED <<now, otherThanStream, inserted_by, polled, metadata, media_id, debridService,
                   cached, wakeAt,
                   background_tasks, response, ongoing_searches, torrent_cache>>
RecheckCache(r) ==
    /\ pc[r] = "recheck_cache"
    /\ torrents' = [torrents EXCEPT ![r] = torrent_cache[media_id[r]]]
    /\ loads' = [loads EXCEPT ![r] = Append(@, LoadResult(media_id[r]))]
    /\ IF torrent_cache[media_id[r]] # {}
       THEN /\ cached' = [cached EXCEPT ![r] = TRUE]
            /\ pc' = [pc EXCEPT ![r] = "rank"]
            /\ UNCHANGED calls
       ELSE /\ pc' = [pc EXCEPT ![r] = "insert"]
            /\ Called(r, {"insert"})
            /\ UNCHANGED cached
    /\ UNCHANGED <<now, otherThanStream, inserted_by, polled, metadata, media_id, debridService,
                   wakeAt, background_tasks,
                   response, ongoing_searches, torrent_cache>>

\* lines 98-105: the insert returns; the cleanup is handed to
\* background_tasks and scrape_torrents is awaited
InsertMarkerStep(r) ==
    /\ pc[r] = "insert"
    /\ ongoing_searches' = InsertOrIgnore(ongoing_searches, media_id[r], now)
    /\ background_tasks' = [background_tasks EXCEPT ![r] = @ \cup {media_id[r]}]
    /\ pc' = [pc EXCEPT ![r] = "scrape"]
    /\ Called(r, {"add_task", "scrape_torrents"})
    /\ UNCHANGED <<now, otherThanStream, metadata, loads, media_id,
                   debridService, torrents, cached, wakeAt,
                   response, torrent_cache>>
InsertMarker(r) ==
    /\ InsertMarkerStep(r)
    /\ UNCHANGED <<inserted_by, polled>>

\* the same step, with the request whose INSERT stored the row recorded
InsertMarkerRecorded(r) ==
    /\ InsertMarkerStep(r)
    /\ inserted_by' =
           IF Conflicts(ongoing_searches, media_id[r]) THEN inserted_by
           ELSE [inserted_by EXCEPT ![media_id[r]] = r]
    /\ UNCHANGED polled

\* lines 105-110: scrape_torrents returns: what it found is merged into the
\* request's map and persisted; get_cache_availability is awaited unless the
\* service is "torrent"
ScrapeReturns(r, found) ==
    /\ pc[r] = "scrape"
    /\ torrents' = [torrents EXCEPT ![r] = @ \cup found]
    /\ torrent_cache' = [torrent_cache EXCEPT ![media_id[r]] = @ \cup found]
    /\ IF debridService[r] # "torrent"
       THEN /\ pc' = [pc EXCEPT ![r] = "availability"]
            /\ Called(r, {"scrape_done", "get_cache_availability"})
       ELSE /\ pc' = [pc EXCEPT ![r] = "rank"]
            /\ Called(r, {"scrape_done"})
    /\ UNCHANGED <<now, otherThanStream, inserted_by, polled, metadata, loads, media_id,
                   debridService, cached, wakeAt,
                   background_tasks, response, ongoing_searches>>

\* lines 105-110: scrape_torrents or get_cache_availability raises; the
\* error propagates, no response is produced and the tasks handed to
\* background_tasks never run
SearchRaises(r) ==
    /\ pc[r] \in {"scrape", "availability"}
    /\ pc' = [pc EXCEPT ![r] = "error"]
    /\ background_tasks' = [background_tasks EXCEPT ![r] = {}]
    /\ UNCHANGED <<now, otherThanStream, inserted_by, polled, metadata, loads, media_id,
                   debridService, torrents, cached, wakeAt,
                   response, calls, ongoing_searches, torrent_cache>>

\* lines 107-110: get_cache_availability returns
AvailabilityReturns(r) ==
    /\ pc[r] = "availability"
    /\ pc' = [pc EXCEPT ![r] = "rank"]
    /\ UNCHANGED <<now, otherThanStream, inserted_by, polled, metadata, loads, media_id,
                   debridService, torrents, cached, wakeAt,
                   background_tasks, response, calls, ongoing_searches,
                   torrent_cache>>

\* lines 112-149: rank_torrents orders some of the torrents (never a hash
\* that is not in the map); one stream entry per ranked torrent, in order
Respond(r, ranked) ==
    /\ pc[r] = "rank"
    /\ ranked \in Rankings(torrents[r])
    /\ response' = [response EXCEPT ![r] =
           [i \in 1..Len(ranked) |-> StreamEntry(debridService[r], ranked[i])]]
    /\ pc' = [pc EXCEPT ![r] = "responded"]
    /\ UNCHANGED <<now, otherThanStream, inserted_by, polled, metadata, loads, media_id,
                   debridService, torrents, cached, wakeAt,
                   background_tasks, calls, ongoing_searches, torrent_cache>>

\* lines 16-20: after the response, remove_ongoing_search_from_database
RunBackgroundTaskStep(r, m) ==
    /\ pc[r] = "responded"
    /\ m \in background_tasks[r]
    /\ ongoing_searches' = DeleteOngoing(ongoing_searches, m)
    /\ background_tasks' = [background_tasks EXCEPT ![r] = @ \ {m}]
    /\ Called(r, {"delete"})
    /\ UNCHANGED <<now, otherThanStream, metadata, loads, pc, media_id,
                   debridService, torrents, cached, wakeAt,
                   response, torrent_cache>>
RunBackgroundTask(r, m) ==
    /\ RunBackgroundTaskStep(r, m)
    /\ UNCHANGED <<inserted_by, polled>>

\* the same step: the row is gone, and with it the record of its INSERT
RunBackgroundTaskRecorded(r, m) ==
    /\ RunBackgroundTaskStep(r, m)
    /\ inserted_by' = [inserted_by EXCEPT ![m] = NoRequest]
    /\ UNCHANGED polled

\* line 149 and lines 16-20 done: the request is over, with its response
\* sent and its background tasks run, or with its error propagated; the
\* handler is free for the next request
Depart(r) ==
    /\ pc[r] \in {"responded", "error"}
    /\ background_tasks[r] = {}
    /\ pc' = [pc EXCEPT ![r] = "idle"]
    /\ media_id' = [media_id EXCEPT ![r] = NoMedia]
    /\ debridService' = [debridService EXCEPT ![r] = "torrent"]
    /\ metadata' = [metadata EXCEPT ![r] = "pending"]
    /\ torrents' = [torrents EXCEPT ![r] = {}]
    /\ cached' = [cached EXCEPT ![r] = FALSE]
    /\ response' = [response EXCEPT ![r] = NoResponse]
    /\ calls' = [calls EXCEPT ![r] = {}]
    /\ loads' = [loads EXCEPT ![r] = <<>>]
    /\ inserted_by' =
           [m \in Media |->
               IF inserted_by[m] = r THEN Departed ELSE inserted_by[m]]
    /\ UNCHANGED <<now, otherThanStream, wakeAt, background_tasks,
                   ongoing_searches, torrent_cache, polled>>

\* time passes
Tick(d) ==
    /\ now + d <= MaxTime
    /\ now' = now + d
    /\ UNCHANGED <<streamVars, otherThanStream>>

StreamNext ==
    \/ \E r \in Requests, m \in Media, svc \in Services : Arrive(r, m, svc)
    \/ \E r \in Requests : MetadataMissing(r)
    \/ \E r \in Requests : MetadataFound(r)
    \/ \E r \in Requests : CacheLoaded(r)
    \/ \E r \in Requests : FirstQuery(r)
    \/ \E r \in Requests : Wake(r)
    \/ \E r \in Requests : PollQuery(r)
    \/ \E r \in Requests : RecheckCache(r)
    \/ \E r \in Requests : InsertMarker(r)
    \/ \E r \in Requests, found \in SUBSET InfoHashes : ScrapeReturns(r, found)
    \/ \E r \in Requests : SearchRaises(r)
    \/ \E r \in Requests : AvailabilityReturns(r)
    \/ \E r \in Requests, ranked \in Rankings(InfoHashes) : Respond(r, ranked)
    \/ \E r \in Requests, m \in Media : RunBackgroundTask(r, m)
    \/ \E d \in TickSteps : Tick(d)

(***************************************************************************)
(* bandwidth_monitor.py.  _connections is a dict: a sequence of            *)
(* ConnectionMetrics in insertion order, one per connection id.  Of a      *)
(* ConnectionMetrics the model keeps connection_id, ip, last_update and    *)
(* bytes_transferred; content, start_time, the speeds and duration are     *)
(* read by no operation modelled here.  All callers run on the event       *)
(* loop's thread, so the reentrant _lock never blocks: a coroutine is      *)
(* interleaved with the others exactly at its awaits.  Connection ids are  *)
(* fresh for every start_connection.                                       *)
(***************************************************************************)
CLEANUP_INTERVAL == 30
INACTIVE_TIMEOUT == 60
SYNC_INTERVAL == 5

NumCallers == 1
MaxBytes == 3
MaxResets == 1
MaxShutdownTime == 40
MaxMonitorTime == 90

Callers == 1..NumCallers

\* the callers of start_connection and end_connection, and the startup hook
\* (0) that calls initialize()
Procs == {0} \cup Callers
ConnIds == {"c1", "c2"}
Ips == {"ip1"}
Chunks == {1, 2}

NoMetrics ==
    [connection_id |-> "none", ip |-> "none", last_update |-> 0,
     bytes_transferred |-> 0]
NoIpRow == [stream_count |-> 0, total_bytes_transferred |-> -1]

\* lines 103-108: ConnectionMetrics(connection_id, ip, content, start_time)
ConnectionMetrics(id, ip, t) ==
    [connection_id |-> id, ip |-> ip, last_update |-> t,
     bytes_transferred |-> 0]

Tracked(conns) == {conns[i].connection_id : i \in DOMAIN conns}

\* self._connections.get(connection_id)
Lookup(conns, id) ==
    IF id \in Tracked(conns)
    THEN conns[CHOOSE i \in DOMAIN conns : conns[i].connection_id = id]
    ELSE NoMetrics

\* line 109: self._connections[connection_id] = metrics
assign(conns, m) ==
    IF m.connection_id \in Tracked(conns)
    THEN [i \in DOMAIN conns |->
             IF conns[i].connection_id = m.connection_id THEN m ELSE conns[i]]
    ELSE Append(conns, m)

\* line 130: self._connections.pop(connection_id, None): what is left
pop_keeps_entry(conns, id) == conns
pop(conns, id) == SelectSeq(conns, LAMBDA m : m.connection_id # id)

Max(a, b) == IF a >= b THEN a ELSE b

\* lines 22-34: ConnectionMetrics.update_metrics
update_metrics(m, bytes_chunk, t) ==
    [m EXCEPT !.bytes_transferred = @ + bytes_chunk, !.last_update = t]

\* lines 121-126: update_connection, on the monitor's memory
update_connection_session_only(connection_id, bytes_chunk) ==
    IF connection_id \in Tracked(connections)
    THEN /\ connections' =
                assign(connections,
                       update_metrics(Lookup(connections, connection_id),
                                      bytes_chunk, now))
         /\ global_stats' =
                [global_stats EXCEPT !.total_bytes_session = @ + bytes_chunk]
    ELSE UNCHANGED <<connections, global_stats>>
update_connection(connection_id, bytes_chunk) ==
    IF connection_id \in Tracked(connections)
    THEN /\ connections' =
                assign(connections,
                       update_metrics(Lookup(connections, connection_id),
                                      bytes_chunk, now))
         /\ global_stats' =
                [global_stats EXCEPT
                    !.total_bytes_session = @ + bytes_chunk,
                    !.total_bytes_alltime = @ + bytes_chunk]
    ELSE UNCHANGED <<connections, global_stats>>

\* lines 102-116: the locked block of start_connection
register(stats, conns) ==
    [stats EXCEPT
        !.active_connections = Len(conns),
        !.peak_concurrent = Max(@, Len(conns))]

\* lines 197-202: UPDATE ip_stream_stats SET stream_count = stream_count + 1
IncrementStreamCount(tbl, ip) ==
    IF tbl[ip] = NoIpRow THEN tbl ELSE [tbl EXCEPT ![ip].stream_count = @ + 1]

\* lines 206-210: INSERT INTO ip_stream_stats ... VALUES (:ip, 1, ..., 0);
\* ip_address is unique, a second row for it is refused
InsertIpRow(tbl, ip) ==
    IF tbl[ip] = NoIpRow
    THEN [tbl EXCEPT ![ip] = [stream_count |-> 1, total_bytes_transferred |-> 0]]
    ELSE tbl

\* lines 221-226: UPDATE ip_stream_stats SET total_bytes_transferred = ... + n
UpdateIpBytes(tbl, ip, n) ==
    IF tbl[ip] = NoIpRow
    THEN tbl
    ELSE [tbl EXCEPT ![ip].total_bytes_transferred = @ + n]

\* lines 241-245: the ids whose last_update is more than 60 seconds old
IsInactive(m, current_time) == current_time - m.last_update > INACTIVE_TIMEOUT
inactive_connections(conns, current_time) ==
    LET stale == SelectSeq(conns, LAMBDA m : IsInactive(m, current_time))
    IN  [i \in DOMAIN stale |-> stale[i].connection_id]

\* lines 248-249 with 129-136: the for loop over inactive_connections runs
\* end_connection for one id after the other, up to the first whose bytes
\* are written to storage (the await of line 136): metrics is that
\* connection, rest the ids still to end, zero the ids ended with no bytes.
RECURSIVE EndUntilSuspended(_, _)
EndUntilSuspended(conns, ids) ==
    IF ids = <<>>
    THEN [conns |-> conns, metrics |-> NoMetrics, rest |-> <<>>, zero |-> {}]
    ELSE LET m == Lookup(conns, Head(ids))
         IN  IF m = NoMetrics
             THEN EndUntilSuspended(conns, Tail(ids))
             ELSE IF m.bytes_transferred > 0
             THEN [conns |-> pop(conns, Head(ids)), metrics |-> m,
                   rest |-> Tail(ids), zero |-> {}]
             ELSE LET r == EndUntilSuspended(pop(conns, Head(ids)), Tail(ids))
                  IN  [r EXCEPT !.zero = @ \cup {Head(ids)}]

\* what the ledger records when end_connection pops a connection
Ended(led, m, who) ==
    [led EXCEPT ![m.connection_id] =
        [state |-> IF m.bytes_transferred > 0 THEN "pending" ELSE "empty",
         bytes |-> m.bytes_transferred, ip |-> m.ip, by |-> who,
         flushed |-> @.flushed]]

\* what the ledger records when the write of _update_ip_bytes returns
Flushed(led, m, ok) ==
    [led EXCEPT ![m.connection_id] =
        [@ EXCEPT
            !.state = IF ~ok THEN "error"
                      ELSE IF ip_stream_stats[m.ip] = NoIpRow THEN "norow"
                      ELSE "ok",
            !.flushed = IF ok /\ ip_stream_stats[m.ip] # NoIpRow
                        THEN @ + 1 ELSE @]]

lifeVars == <<initialized, last_synced_bytes, session_start, cleanup_task,
              db_sync_task, sync_loops, bandwidth_stats, session_stats,
              loaded, init_current_time>>

\* lines 84-87: INSERT INTO session_stats (id, ...) VALUES (1, ...): the
\* table holds the one row of id 1
InsertSession(tbl, t) ==
    IF tbl = NoSession
    THEN [session_start |-> t, session_bytes |-> 0, peak_concurrent |-> 0]
    ELSE tbl

\* line 257: a sync loop in its asyncio.sleep(5); the locals of lines
\* 260-262 are not yet assigned
AsleepSync(wake) ==
    [pc |-> "sleep", wake |-> wake, total_bytes |-> 0, session_bytes |-> 0,
     peak_concurrent |-> 0, session_start |-> 0, epoch |-> 0]

NoReset == [pc |-> "idle", current_time |-> 0]
NoWrite == [epoch |-> 0, resets_done |-> 0, session_bytes |-> 0,
            peak_concurrent |-> 0]
NotShutDown == [returned |-> FALSE, cleanup_loops |-> <<>>, sync_loops |-> <<>>]

\* no reset_session and no shutdown has been called
AdminFresh ==
    /\ reset_call = NoReset
    /\ resets = 0
    /\ resets_done = 0
    /\ session_written = NoWrite
    /\ shut_down = NotShutDown

AsleepCleanup ==
    [pc |-> "sleep", wake |-> now + CLEANUP_INTERVAL, inactive |-> <<>>,
     metrics |-> NoMetrics]

\* lines 54-59: initialize() called by the startup hook: it returns at once
\* on an initialized monitor, otherwise the read of the total is awaited
Initialize ==
    /\ mpc[0] = "idle"
    /\ ~initialized
    /\ mpc' = [mpc EXCEPT ![0] = "init_total"]
    /\ UNCHANGED <<now, otherThanMonitor, adminVars, lifeVars, connections, global_stats,
                   call, ip_stream_stats, cleanup_loops, started, reaped,
                   ledger>>

\* lines 58-71: the read of bandwidth_stats returns (or raises)
InitTotalDone(p, ok) ==
    /\ mpc[p] = "init_total"
    /\ IF ok /\ bandwidth_stats # NoRow
       THEN /\ global_stats' =
                   [global_stats EXCEPT !.total_bytes_alltime = bandwidth_stats]
            /\ last_synced_bytes' = bandwidth_stats
       ELSE UNCHANGED <<global_stats, last_synced_bytes>>
    /\ init_current_time' = [init_current_time EXCEPT ![p] = now]
    /\ loaded' = loaded + 1
    /\ mpc' = [mpc EXCEPT ![p] = "init_session"]
    /\ UNCHANGED <<now, otherThanMonitor, adminVars, initialized, session_start,
                   cleanup_task, db_sync_task, sync_loops, bandwidth_stats,
                   session_stats, connections, call, ip_stream_stats,
                   cleanup_loops, started, reaped, ledger>>

\* lines 93-96, and lines 102-119 when initialize was called by
\* start_connection: both loops are started, the flag is set, and the
\* connection is registered with the UPDATE of _track_ip_stream awaited
FinishInitialize(p, stats) ==
    /\ cleanup_loops' = Append(cleanup_loops, AsleepCleanup)
    /\ sync_loops' =
           Append(sync_loops, AsleepSync(now + SYNC_INTERVAL))
    /\ cleanup_task' = Len(cleanup_loops')
    /\ db_sync_task' = Len(sync_loops')
    /\ initialized' = TRUE
    /\ IF call[p] = NoMetrics
       THEN /\ global_stats' = stats
            /\ mpc' = [mpc EXCEPT ![p] = "idle"]
            /\ UNCHANGED <<connections, call>>
       ELSE LET metrics ==
                    ConnectionMetrics(call[p].connection_id, call[p].ip, now)
            IN  /\ connections' = assign(connections, metrics)
                /\ global_stats' = register(stats, connections')
                /\ mpc' = [mpc EXCEPT ![p] = "track_update"]
                /\ call' = [call EXCEPT ![p] = metrics]

\* lines 73-91: the read of session_stats returns: the session goes on, or
\* a new one starts and its INSERT is awaited; or the read raises
InitSessionDone(p, ok) ==
    /\ mpc[p] = "init_session"
    /\ IF ok /\ session_stats # NoSession
       THEN /\ session_start' = session_stats.session_start
            /\ FinishInitialize(p,
                   [global_stats EXCEPT
                       !.total_bytes_session = session_stats.session_bytes,
                       !.peak_concurrent = session_stats.peak_concurrent])
       ELSE /\ session_start' = init_current_time[p]
            /\ IF ok
               THEN /\ mpc' = [mpc EXCEPT ![p] = "init_insert"]
                    /\ UNCHANGED <<cleanup_loops, sync_loops, cleanup_task,
                                   db_sync_task, initialized, connections,
                                   global_stats, call>>
               ELSE FinishInitialize(p, global_stats)
    /\ UNCHANGED <<now, otherThanMonitor, adminVars, last_synced_bytes, bandwidth_stats,
                   session_stats, loaded, init_current_time, ip_stream_stats,
                   started, reaped, ledger>>

\* lines 84-91: the INSERT of the session row returns, or raises and the
\* session start falls back to current_time
InitInsertDone(p, ok) ==
    /\ mpc[p] = "init_insert"
    /\ IF ok /\ session_stats = NoSession
       THEN /\ session_stats' = InsertSession(session_stats, init_current_time[p])
            /\ UNCHANGED session_start
       ELSE /\ session_start' = init_current_time[p]
            /\ UNCHANGED session_stats
    /\ FinishInitialize(p, global_stats)
    /\ UNCHANGED <<now, otherThanMonitor, adminVars, last_synced_bytes, bandwidth_stats,
                   loaded, init_current_time, ip_stream_stats, started, reaped,
                   ledger>>

\* lines 98-119: start_connection: on an initialized monitor the locked
\* block, then the UPDATE of _track_ip_stream is awaited; otherwise
\* initialize() first, whose read of the total is awaited
StartConnection(c, id, ip) ==
    /\ mpc[c] = "idle"
    /\ id \notin started
    /\ started' = started \cup {id}
    /\ call' = [call EXCEPT ![c] = ConnectionMetrics(id, ip, now)]
    /\ IF initialized
       THEN /\ connections' =
                   assign(connections, ConnectionMetrics(id, ip, now))
            /\ global_stats' = register(global_stats, connections')
            /\ mpc' = [mpc EXCEPT ![c] = "track_update"]
       ELSE /\ mpc' = [mpc EXCEPT ![c] = "init_total"]
            /\ UNCHANGED <<connections, global_stats>>
    /\ UNCHANGED <<now, otherThanMonitor, adminVars, lifeVars, ip_stream_stats,
                   cleanup_loops, reaped,
                   ledger>>

\* lines 195-216: the UPDATE returns: a row was updated; or none was and the
\* INSERT is awaited; or the statement raised and the error is logged
TrackUpdateDone(c, ok) ==
    /\ mpc[c] = "track_update"
    /\ ip_stream_stats' =
           IF ok THEN IncrementStreamCount(ip_stream_stats, call[c].ip)
           ELSE ip_stream_stats
    /\ IF ok /\ ip_stream_stats[call[c].ip] = NoIpRow
       THEN /\ mpc' = [mpc EXCEPT ![c] = "track_insert"]
            /\ UNCHANGED call
       ELSE /\ mpc' = [mpc EXCEPT ![c] = "idle"]
            /\ call' = [call EXCEPT ![c] = NoMetrics]
    /\ UNCHANGED <<now, otherThanMonitor, adminVars, lifeVars, connections, global_stats,
                   cleanup_loops,
                   started, reaped, ledger>>

\* lines 205-216: the INSERT returns (or raises: the error is logged)
TrackInsertDone(c, ok) ==
    /\ mpc[c] = "track_insert"
    /\ ip_stream_stats' =
           IF ok THEN InsertIpRow(ip_stream_stats, call[c].ip)
           ELSE ip_stream_stats
    /\ mpc' = [mpc EXCEPT ![c] = "idle"]
    /\ call' = [call EXCEPT ![c] = NoMetrics]
    /\ UNCHANGED <<now, otherThanMonitor, adminVars, lifeVars, connections, global_stats,
                   cleanup_loops,
                   started, reaped, ledger>>

\* lines 121-126: update_connection
UpdateConnection(id, bytes_chunk) ==
    /\ global_stats.total_bytes_alltime + bytes_chunk <= MaxBytes
    /\ update_connection(id, bytes_chunk)
    /\ UNCHANGED <<now, otherThanMonitor, adminVars, lifeVars, ip_stream_stats, mpc,
                   call, cleanup_loops,
                   started, reaped, ledger>>

\* lines 128-136: end_connection: the pop, the count, and with bytes to
\* flush the write of _update_ip_bytes is awaited
EndConnection(c, id) ==
    /\ mpc[c] = "idle"
    /\ LET metrics == Lookup(connections, id)
       IN  IF metrics = NoMetrics
           THEN UNCHANGED <<connections, global_stats, mpc, call, ledger>>
           ELSE /\ connections' = pop(connections, id)
                /\ global_stats' =
                       [global_stats EXCEPT
                           !.active_connections = Len(connections')]
                /\ ledger' = Ended(ledger, metrics, "caller")
                /\ IF metrics.bytes_transferred > 0
                   THEN /\ mpc' = [mpc EXCEPT ![c] = "flush"]
                        /\ call' = [call EXCEPT ![c] = metrics]
                   ELSE UNCHANGED <<mpc, call>>
    /\ UNCHANGED <<now, otherThanMonitor, adminVars, lifeVars, ip_stream_stats,
                   cleanup_loops, started,
                   reaped>>

\* lines 218-232 and 150: the write of _update_ip_bytes returns (or raises:
\* the error is logged) and end_connection returns
FlushDone(c, ok) ==
    /\ mpc[c] = "flush"
    /\ ip_stream_stats' =
           IF ok
           THEN UpdateIpBytes(ip_stream_stats, call[c].ip,
                              call[c].bytes_transferred)
           ELSE ip_stream_stats
    /\ ledger' = Flushed(ledger, call[c], ok)
    /\ mpc' = [mpc EXCEPT ![c] = "idle"]
    /\ call' = [call EXCEPT ![c] = NoMetrics]
    /\ UNCHANGED <<now, otherThanMonitor, adminVars, lifeVars, connections, global_stats,
                   cleanup_loops,
                   started, reaped>>

\* the cleanup loop goes on from `ids`: it ends connections up to the next
\* awaited write, or finishes the cycle and sleeps again
CleanupContinue(k, ids, led) ==
    LET r == EndUntilSuspended(connections, ids)
    IN  /\ connections' = r.conns
        /\ global_stats' =
               IF r.conns # connections
               THEN [global_stats EXCEPT !.active_connections = Len(r.conns)]
               ELSE global_stats
        /\ ledger' =
               LET led0 == [id \in ConnIds |->
                               IF id \in r.zero
                               THEN Ended(led, Lookup(connections, id),
                                          "cleanup")[id]
                               ELSE led[id]]
               IN  IF r.metrics = NoMetrics THEN led0
                   ELSE Ended(led0, r.metrics, "cleanup")
        /\ cleanup_loops' =
               [cleanup_loops EXCEPT ![k] =
                   IF r.metrics = NoMetrics
                   THEN AsleepCleanup
                   ELSE [pc |-> "flush", wake |-> 0, inactive |-> r.rest,
                         metrics |-> r.metrics]]

\* lines 237-249: the sleep is over: the cycle lists the inactive
\* connections and starts ending them
CleanupCycle(k) ==
    /\ cleanup_loops[k].pc = "sleep"
    /\ now >= cleanup_loops[k].wake
    /\ LET ids == inactive_connections(connections, now)
       IN  /\ reaped' = reaped \cup {ids[i] : i \in DOMAIN ids}
           /\ CleanupContinue(k, ids, ledger)
    /\ UNCHANGED <<now, otherThanMonitor, adminVars, lifeVars, ip_stream_stats, mpc,
                   call, started>>

\* lines 248-249 with 218-232: the write of _update_ip_bytes returns (or
\* raises: the error is logged); the for loop goes on
CleanupFlushDone(k, ok) ==
    /\ cleanup_loops[k].pc = "flush"
    /\ ip_stream_stats' =
           IF ok
           THEN UpdateIpBytes(ip_stream_stats, cleanup_loops[k].metrics.ip,
                              cleanup_loops[k].metrics.bytes_transferred)
           ELSE ip_stream_stats
    /\ CleanupContinue(k, cleanup_loops[k].inactive,
                       Flushed(ledger, cleanup_loops[k].metrics, ok))
    /\ UNCHANGED <<now, otherThanMonitor, adminVars, lifeVars, mpc, call, started,
                   reaped>>

\* time passes
TickMonitor ==
    /\ now + CLEANUP_INTERVAL <= MaxMonitorTime
    /\ now' = now + CLEANUP_INTERVAL
    /\ UNCHANGED <<monitorVars, otherThanMonitor>>

\* the sync loop k sleeps again (line 257)
SyncSleeps(k) ==
    sync_loops' = [sync_loops EXCEPT ![k] = AsleepSync(now + SYNC_INTERVAL)]

\* lines 257-273 and 286: the sleep is over: the three counters are read
\* under the lock; a total that differs from the last synced one has its
\* INSERT awaited, otherwise the UPDATE of the session row is awaited
SyncSnapshot(k) ==
    /\ sync_loops[k].pc = "sleep"
    /\ now >= sync_loops[k].wake
    /\ sync_loops' =
           [sync_loops EXCEPT ![k] =
               [pc |-> IF global_stats.total_bytes_alltime # last_synced_bytes
                       THEN "total_insert" ELSE "session_update",
                wake |-> 0,
                total_bytes |-> global_stats.total_bytes_alltime,
                session_bytes |-> global_stats.total_bytes_session,
                peak_concurrent |-> global_stats.peak_concurrent,
                session_start |-> 0,
                epoch |-> resets]]
    /\ UNCHANGED <<now, otherThanMonitor, adminVars, connections, global_stats,
                   last_synced_bytes, session_start, cleanup_task,
                   db_sync_task, initialized, cleanup_loops, mpc, call,
                   bandwidth_stats, session_stats, ip_stream_stats, started,
                   reaped, ledger, loaded, init_current_time>>

\* lines 268-282: the INSERT of the total returns: the row id = 1 is new and
\* the total is the last synced one; or it raises (the row exists, or the
\* storage fails) and the UPDATE is awaited
SyncTotalInsertDone(k, ok) ==
    /\ sync_loops[k].pc = "total_insert"
    /\ IF ok /\ bandwidth_stats = NoRow
       THEN /\ bandwidth_stats' = sync_loops[k].total_bytes
            /\ last_synced_bytes' = sync_loops[k].total_bytes
            /\ sync_loops' = [sync_loops EXCEPT ![k].pc = "session_update"]
       ELSE /\ sync_loops' = [sync_loops EXCEPT ![k].pc = "total_update"]
            /\ UNCHANGED <<bandwidth_stats, last_synced_bytes>>
    /\ UNCHANGED <<now, otherThanMonitor, adminVars, connections, global_stats,
                   session_start, cleanup_task, db_sync_task, initialized,
                   cleanup_loops, mpc, call, session_stats, ip_stream_stats,
                   started, reaped, ledger, loaded, init_current_time>>

\* lines 274-282 and 300-301: the UPDATE of the total returns and the total
\* is the last synced one; or it raises: the error is logged and the cycle
\* is over
SyncTotalUpdateDone(k, ok) ==
    /\ sync_loops[k].pc = "total_update"
    /\ IF ok
       THEN /\ bandwidth_stats' =
                   IF bandwidth_stats = NoRow THEN NoRow
                   ELSE sync_loops[k].total_bytes
            /\ last_synced_bytes' = sync_loops[k].total_bytes
            /\ sync_loops' = [sync_loops EXCEPT ![k].pc = "session_update"]
       ELSE /\ SyncSleeps(k)
            /\ UNCHANGED <<bandwidth_stats, last_synced_bytes>>
    /\ UNCHANGED <<now, otherThanMonitor, adminVars, connections, global_stats,
                   session_start, cleanup_task, db_sync_task, initialized,
                   cleanup_loops, mpc, call, session_stats, ip_stream_stats,
                   started, reaped, ledger, loaded, init_current_time>>

\* lines 285-296: the UPDATE of the session row returns: the row holds the
\* session bytes and the peak read at lines 261-262; or it raises and the
\* INSERT, with self._session_start, is awaited
SyncSessionUpdateDone(k, ok) ==
    /\ sync_loops[k].pc = "session_update"
    /\ IF ok
       THEN /\ SyncSleeps(k)
            /\ IF session_stats = NoSession
               THEN UNCHANGED <<session_stats, session_written>>
               ELSE /\ session_stats' =
                           [session_stats EXCEPT
                               !.session_bytes = sync_loops[k].session_bytes,
                               !.peak_concurrent =
                                   sync_loops[k].peak_concurrent]
                    /\ session_written' =
                           [epoch |-> sync_loops[k].epoch,
                            resets_done |-> resets_done,
                            session_bytes |-> sync_loops[k].session_bytes,
                            peak_concurrent |-> sync_loops[k].peak_concurrent]
       ELSE /\ sync_loops' =
                   [sync_loops EXCEPT ![k].pc = "session_insert",
                                      ![k].session_start = session_start]
            /\ UNCHANGED <<session_stats, session_written>>
    /\ UNCHANGED <<now, otherThanMonitor, reset_call, resets, resets_done,
                   shut_down, connections, global_stats, last_synced_bytes,
                   session_start, cleanup_task, db_sync_task, initialized,
                   cleanup_loops, mpc, call, bandwidth_stats, ip_stream_stats,
                   started, reaped, ledger, loaded, init_current_time>>

\* lines 292-298: the INSERT of the session row returns, or raises and is
\* ignored (the row exists, or the storage fails)
SyncSessionInsertDone(k, ok) ==
    /\ sync_loops[k].pc = "session_insert"
    /\ SyncSleeps(k)
    /\ IF ok /\ session_stats = NoSession
       THEN /\ session_stats' =
                   [session_start |-> sync_loops[k].session_start,
                    session_bytes |-> sync_loops[k].session_bytes,
                    peak_concurrent |-> sync_loops[k].peak_concurrent]
            /\ session_written' =
                   [epoch |-> sync_loops[k].epoch,
                    resets_done |-> resets_done,
                    session_bytes |-> sync_loops[k].session_bytes,
                    peak_concurrent |-> sync_loops[k].peak_concurrent]
       ELSE UNCHANGED <<session_stats, session_written>>
    /\ UNCHANGED <<now, otherThanMonitor, reset_call, resets, resets_done,
                   shut_down, connections, global_stats, last_synced_bytes,
                   session_start, cleanup_task, db_sync_task, initialized,
                   cleanup_loops, mpc, call, bandwidth_stats, ip_stream_stats,
                   started, reaped, ledger, loaded, init_current_time>>

\* lines 303-316: reset_session: the session counters are zeroed and the
\* session start is set under the lock, then the UPDATE is awaited
ResetSession ==
    /\ reset_call.pc = "idle"
    /\ resets < MaxResets
    /\ global_stats' =
           [global_stats EXCEPT !.total_bytes_session = 0,
                                !.peak_concurrent = 0]
    /\ session_start' = now
    /\ reset_call' = [pc |-> "update", current_time |-> now]
    /\ resets' = resets + 1
    /\ UNCHANGED <<now, otherThanMonitor, resets_done, session_written,
                   shut_down, connections, last_synced_bytes, cleanup_task,
                   db_sync_task, initialized, cleanup_loops, sync_loops, mpc,
                   call, bandwidth_stats, session_stats, ip_stream_stats,
                   started, reaped, ledger, loaded, init_current_time>>

\* lines 312-318: the UPDATE returns and reset_session with it; or it raises,
\* the error is logged and reset_session returns
ResetUpdateDone(ok) ==
    /\ reset_call.pc = "update"
    /\ IF ok
       THEN /\ session_stats' =
                   IF session_stats = NoSession THEN NoSession
                   ELSE [session_start |-> reset_call.current_time,
                         session_bytes |-> 0, peak_concurrent |-> 0]
            /\ resets_done' = resets
       ELSE UNCHANGED <<session_stats, resets_done>>
    /\ reset_call' = NoReset
    /\ UNCHANGED <<now, otherThanMonitor, resets, session_written, shut_down,
                   connections, global_stats, last_synced_bytes,
                   session_start, cleanup_task, db_sync_task, initialized,
                   cleanup_loops, sync_loops, mpc, call, bandwidth_stats,
                   ip_stream_stats, started, reaped, ledger, loaded,
                   init_current_time>>

\* task.cancel(): the task is suspended at an await, where CancelledError is
\* raised; no except clause of the loop catches it and the task ends
cancel(loops, task) ==
    IF task = 0 THEN loops ELSE [loops EXCEPT ![task].pc = "cancelled"]

\* lines 331-335: shutdown
Shutdown ==
    /\ ~shut_down.returned
    /\ cleanup_loops' = cancel(cleanup_loops, cleanup_task)
    /\ sync_loops' = cancel(sync_loops, db_sync_task)
    /\ shut_down' = [returned |-> TRUE, cleanup_loops |-> cleanup_loops',
                     sync_loops |-> sync_loops']
    /\ UNCHANGED <<now, otherThanMonitor, reset_call, resets, resets_done,
                   session_written, connections, global_stats,
                   last_synced_bytes, session_start, cleanup_task,
                   db_sync_task, initialized, mpc, call, bandwidth_stats,
                   session_stats, ip_stream_stats, started, reaped, ledger,
                   loaded, init_current_time>>

MonitorNext ==
    \/ \E c \in Callers, id \in ConnIds, ip \in Ips : StartConnection(c, id, ip)
    \/ \E c \in Callers, ok \in BOOLEAN : TrackUpdateDone(c, ok)
    \/ \E c \in Callers, ok \in BOOLEAN : TrackInsertDone(c, ok)
    \/ \E id \in ConnIds, n \in Chunks : UpdateConnection(id, n)
    \/ \E c \in Callers, id \in ConnIds : EndConnection(c, id)
    \/ \E c \in Callers, ok \in BOOLEAN : FlushDone(c, ok)
    \/ \E k \in DOMAIN cleanup_loops : CleanupCycle(k)
    \/ \E k \in DOMAIN cleanup_loops, ok \in BOOLEAN : CleanupFlushDone(k, ok)
    \/ TickMonitor

\* __init__ (lines 38-51): the monitor's memory, with no call under way
MonitorMemory ==
    /\ connections = <<>>
    /\ global_stats =
           [total_bytes_alltime |-> 0, total_bytes_session |-> 0,
            active_connections |-> 0, peak_concurrent |-> 0]
    /\ last_synced_bytes = 0
    /\ session_start = 0
    /\ cleanup_task = 0
    /\ db_sync_task = 0
    /\ initialized = FALSE
    /\ cleanup_loops = <<>>
    /\ sync_loops = <<>>
    /\ mpc = [p \in Procs |-> "idle"]
    /\ call = [p \in Procs |-> NoMetrics]
    /\ init_current_time = [p \in Procs |-> 0]
    /\ started = {}
    /\ reaped = {}
    /\ ledger = [id \in ConnIds |->
                    [state |-> "live", bytes |-> 0, ip |-> "none",
                     by |-> "none", flushed |-> 0]]
    /\ loaded = 0
    /\ AdminFresh

\* the monitor's tables: the total and the session row as given, no IP row
MonitorTables(total, session) ==
    /\ bandwidth_stats = total
    /\ session_stats = session
    /\ ip_stream_stats = [ip \in Ips |-> NoIpRow]

\* the monitor as __init__ leaves it, with empty tables
MonitorFresh ==
    /\ MonitorMemory
    /\ MonitorTables(NoRow, NoSession)

\* the monitor after one initialize() on empty tables (lines 53-96): the
\* session row inserted, one cleanup loop and one sync loop asleep
MonitorInitialized ==
    /\ connections = <<>>
    /\ global_stats =
           [total_bytes_alltime |-> 0, total_bytes_session |-> 0,
            active_connections |-> 0, peak_concurrent |-> 0]
    /\ last_synced_bytes = 0
    /\ session_start = 0
    /\ cleanup_task = 1
    /\ db_sync_task = 1
    /\ initialized = TRUE
    /\ cleanup_loops =
           <<[pc |-> "sleep", wake |-> CLEANUP_INTERVAL, inactive |-> <<>>,
              metrics |-> NoMetrics]>>
    /\ sync_loops = <<AsleepSync(SYNC_INTERVAL)>>
    /\ mpc = [p \in Procs |-> "idle"]
    /\ call = [p \in Procs |-> NoMetrics]
    /\ init_current_time = [p \in Procs |-> 0]
    /\ bandwidth_stats = NoRow
    /\ session_stats =
           [session_start |-> 0, session_bytes |-> 0, peak_concurrent |-> 0]
    /\ ip_stream_stats = [ip \in Ips |-> NoIpRow]
    /\ started = {}
    /\ reaped = {}
    /\ ledger = [id \in ConnIds |->
                    [state |-> "live", bytes |-> 0, ip |-> "none",
                     by |-> "none", flushed |-> 0]]
    /\ loaded = 1
    /\ AdminFresh

(***************************************************************************)
(* logger.py: the DatabaseLogHandler.  A log entry is its message (here a  *)
(* serial number) and its created time.                                    *)
(***************************************************************************)
LOG_SYNC_INTERVAL == 2
LOG_BATCH == 100
LOG_RETENTION == 604800

MaxWrites == 3
MaxLogSeconds == 4
MaxLogPeriods == 1
MaxBacklog == 101
MaxBacklogTime == 2

LogTickSteps == {1, LOG_RETENTION}

\* line 58: self.log_queue[:100]
TakeNewest(q, n) ==
    SubSeq(q, (IF Len(q) < n THEN 0 ELSE Len(q) - n) + 1, Len(q))
Take(q, n) == SubSeq(q, 1, IF Len(q) < n THEN Len(q) ELSE n)

\* line 59: self.log_queue[100:]
Drop(q, n) == SubSeq(q, (IF Len(q) < n THEN Len(q) ELSE n) + 1, Len(q))

\* line 73: cutoff_time = int(time.time()) - (7 * 24 * 60 * 60)
cutoff_one_day(t) == t - 86400
cutoff_time(t) == t - LOG_RETENTION

\* lines 74-76: DELETE FROM persistent_logs WHERE created < ?
DeleteOlderOrEqual(rows, cutoff) ==
    SelectSeq(rows, LAMBDA row : ~(row.created <= cutoff))
DeleteOlder(rows, cutoff) ==
    SelectSeq(rows, LAMBDA row : ~(row.created < cutoff))

Messages(rows) == {rows[i].message : i \in DOMAIN rows}

Asleep(how) ==
    [pc |-> "sleep", wake |-> now + LOG_SYNC_INTERVAL, batch |-> <<>>,
     cutoff |-> 0, last |-> how]

LogFresh ==
    /\ log_database = FALSE
    /\ log_queue = <<>>
    /\ log_sync = [pc |-> "none", wake |-> 0, batch |-> <<>>, cutoff |-> 0,
                   last |-> "none"]
    /\ persistent_logs = <<>>
    /\ written = 0
    /\ purged = {}

\* lines 21-29: initialize: the database handle is there and the sync task
\* is created, or the import fails and the failure is printed
LogInitialize(ok) ==
    /\ log_sync.pc = "none"
    /\ ~log_database
    /\ log_sync.last = "none"
    /\ IF ok
       THEN /\ log_database' = TRUE
            /\ log_sync' = Asleep("none")
       ELSE /\ log_sync' = [log_sync EXCEPT !.last = "failed"]
            /\ UNCHANGED log_database
    /\ UNCHANGED <<now, otherThanLog, log_queue, persistent_logs, written,
                   purged>>

\* lines 31-47: write
Write ==
    /\ written < MaxWrites
    /\ written' = written + 1
    /\ log_queue' = Append(log_queue, [message |-> written + 1, created |-> now])
    /\ UNCHANGED <<now, otherThanLog, log_database, log_sync, persistent_logs,
                   purged>>

\* lines 53-70: the sleep is over.  With an empty queue or no database the
\* cycle ends here (continue); otherwise up to 100 entries leave the queue
\* and the INSERT of the first is awaited
LogSyncCycle ==
    /\ log_sync.pc = "sleep"
    /\ now >= log_sync.wake
    /\ IF log_queue = <<>> \/ ~log_database
       THEN /\ log_sync' = Asleep("skipped")
            /\ UNCHANGED log_queue
       ELSE /\ log_sync' =
                   [pc |-> "insert", wake |-> 0,
                    batch |-> Take(log_queue, LOG_BATCH), cutoff |-> 0,
                    last |-> log_sync.last]
            /\ log_queue' = Drop(log_queue, LOG_BATCH)
    /\ UNCHANGED <<now, otherThanLog, log_database, persistent_logs, written,
                   purged>>

\* lines 62-76: an INSERT returns: the next one is awaited, or after the
\* last one the cutoff is computed and the DELETE is awaited
LogInsertDone ==
    /\ log_sync.pc = "insert"
    /\ persistent_logs' = Append(persistent_logs, Head(log_sync.batch))
    /\ log_sync' =
           IF Tail(log_sync.batch) # <<>>
           THEN [log_sync EXCEPT !.batch = Tail(@)]
           ELSE [log_sync EXCEPT
                    !.pc = "delete", !.batch = <<>>, !.cutoff = cutoff_time(now)]
    /\ UNCHANGED <<now, otherThanLog, log_database, log_queue, written,
                   purged>>

\* lines 62-79: an INSERT or the DELETE raises: the error is printed and the
\* loop sleeps again
LogStatementRaises ==
    /\ log_sync.pc \in {"insert", "delete"}
    /\ log_sync' = Asleep("failed")
    /\ UNCHANGED <<now, otherThanLog, log_database, log_queue,
                   persistent_logs, written, purged>>

\* lines 74-76: the DELETE returns and the loop sleeps again
LogDeleteDone ==
    /\ log_sync.pc = "delete"
    /\ persistent_logs' = DeleteOlder(persistent_logs, log_sync.cutoff)
    /\ purged' = purged \cup (Messages(persistent_logs)
                                \ Messages(persistent_logs'))
    /\ log_sync' = Asleep("done")
    /\ UNCHANGED <<now, otherThanLog, log_database, log_queue, written>>

\* time passes
TickLog(d) ==
    /\ (now + d) % LOG_RETENTION <= MaxLogSeconds
    /\ (now + d) \div LOG_RETENTION <= MaxLogPeriods
    /\ now' = now + d
    /\ UNCHANGED <<otherThanLog, logVars>>

LogNext ==
    \/ \E ok \in BOOLEAN : LogInitialize(ok)
    \/ Write
    \/ LogSyncCycle
    \/ LogInsertDone
    \/ LogStatementRaises
    \/ LogDeleteDone
    \/ \E d \in LogTickSteps : TickLog(d)

(***************************************************************************)
(* user_management.py.  The users table is the sequence of its rows in     *)
(* insertion order.  A stored config is a text, a returned config a value. *)
(***************************************************************************)
MaxUsers == 1
MaxTokens == 2
MaxUserTime == 1

Usernames == {"alice", "bob"}
UpdateFields == {"username", "config", "enabled"}
UserIds == 1..(MaxUsers + 1)

\* comet.utils.models.default_config
default_config == "default_config"
CustomConfig == "custom_config"

\* a token that was never generated; the empty token
UnknownToken == MaxTokens + 1
EmptyToken == 0

\* line 58: json.dumps(config)
dumps(config) == <<"json", config>>

\* a stored text json.loads raises on
Garbage == <<"not json">>

\* lines 123-127: json.loads(row["config"]), default_config.copy() when it
\* raises
loads_or_raise(text) == IF text = Garbage THEN "JSONDecodeError" ELSE text[2]
loads_or_default(text) == IF text = Garbage THEN default_config ELSE text[2]

NoUser ==
    [id |-> 0, username |-> "None", token |-> 0, config |-> "None",
     created_at |-> 0, updated_at |-> 0, enabled |-> FALSE]

\* lines 129-137: User(id=row["id"], ..., config=config, ...)
User(row) == [row EXCEPT !.config = loads_or_default(row.config)]

\* lines 33-36: UserCreate.__init__
UserCreate(username, config) ==
    [username |-> username,
     config |-> IF config = "None" THEN default_config ELSE config]

\* lines 111-121: SELECT ... WHERE token = :token AND enabled = TRUE
FetchByTokenAnyState(tbl, token) ==
    LET hits == SelectSeq(tbl, LAMBDA row : row.token = token)
    IN  IF hits = <<>> THEN NoUser ELSE hits[1]
FetchByToken(tbl, token) ==
    LET hits == SelectSeq(tbl, LAMBDA row : row.token = token /\ row.enabled)
    IN  IF hits = <<>> THEN NoUser ELSE hits[1]

\* lines 142-152: SELECT ... WHERE id = :user_id
FetchById(tbl, user_id) ==
    LET hits == SelectSeq(tbl, LAMBDA row : row.id = user_id)
    IN  IF hits = <<>> THEN NoUser ELSE hits[1]

\* lines 106-137: get_user_by_token
get_user_by_token(tbl, token) ==
    IF token = EmptyToken THEN NoUser
    ELSE LET row == FetchByToken(tbl, token)
         IN  IF row = NoUser THEN NoUser ELSE User(row)

\* lines 140-168: get_user_by_id
get_user_by_id(tbl, user_id) ==
    LET row == FetchById(tbl, user_id)
    IN  IF row = NoUser THEN NoUser ELSE User(row)

\* lines 273-279: validate_user_token
validate_user_token_any_state(tbl, token) ==
    token # EmptyToken /\ FetchByTokenAnyState(tbl, token) # NoUser
validate_user_token(tbl, token) ==
    IF token = EmptyToken THEN FALSE
    ELSE LET user == get_user_by_token(tbl, token)
         IN  user # NoUser /\ user.enabled

\* lines 173-179: the orders ORDER BY created_at DESC allows
NewestFirst(tbl) ==
    {order \in [DOMAIN tbl -> DOMAIN tbl] :
        /\ \A i, j \in DOMAIN tbl : i # j => order[i] # order[j]
        /\ \A i, j \in DOMAIN tbl :
              i < j => tbl[order[i]].created_at >= tbl[order[j]].created_at}

\* lines 206-230: the UPDATE update_user builds from the supplied fields
UpdateRowEnables(row, user_update, t) ==
    [row EXCEPT
        !.username = IF "username" \in user_update.supplied
                     THEN user_update.username ELSE @,
        !.config = IF "config" \in user_update.supplied
                   THEN dumps(user_update.config) ELSE @,
        !.enabled = TRUE,
        !.updated_at = t]
UpdateRow(row, user_update, t) ==
    [row EXCEPT
        !.username = IF "username" \in user_update.supplied
                     THEN user_update.username ELSE @,
        !.config = IF "config" \in user_update.supplied
                   THEN dumps(user_update.config) ELSE @,
        !.enabled = IF "enabled" \in user_update.supplied
                    THEN user_update.enabled ELSE @,
        !.updated_at = t]

\* lines 256-267: UPDATE users SET token = :token, updated_at = :updated_at
SetTokenKeepsOld(row, token, t) == [row EXCEPT !.updated_at = t]
SetToken(row, token, t) == [row EXCEPT !.token = token, !.updated_at = t]

\* a statement's WHERE id = :user_id: of the changed rows, those of that id
\* replace the stored ones
WhereId(tbl, user_id, changed) ==
    [i \in DOMAIN tbl |->
        IF tbl[i].id = user_id THEN changed[i] ELSE tbl[i]]

\* lines 39-42: the UserUpdate objects handed to update_user; a field that
\* is not supplied is None
UserUpdates ==
    {u \in [supplied : SUBSET UpdateFields, username : Usernames \cup {"None"},
            config : {CustomConfig, "None"}, enabled : BOOLEAN] :
        /\ u.username = "None" <=> "username" \notin u.supplied
        /\ u.config = "None" <=> "config" \notin u.supplied
        /\ "enabled" \notin u.supplied => u.enabled = FALSE}

NoReturn == [op |-> "none", arg |-> 0, result |-> 0]

UsersFresh ==
    /\ users = <<>>
    /\ next_user_id = 1
    /\ generated = 0
    /\ update_pending = 0
    /\ returned = NoReturn
    /\ before = <<>>

\* line 55: generate_user_token: a token no earlier call returned
generate_user_token == generated + 1

\* lines 51-103: create_user
CreateUser(username, config) ==
    /\ next_user_id <= MaxUsers
    /\ generated < MaxTokens
    /\ LET user_data == UserCreate(username, config)
           token == generate_user_token
           row == [id |-> next_user_id, username |-> user_data.username,
                   token |-> token, config |-> dumps(user_data.config),
                   created_at |-> now, updated_at |-> now, enabled |-> TRUE]
       IN  /\ users' = Append(users, row)
           /\ returned' =
                  [op |-> "create_user",
                   arg |-> [username |-> username, config |-> config],
                   result |-> [row EXCEPT !.config = user_data.config]]
    /\ next_user_id' = next_user_id + 1
    /\ generated' = generated + 1
    /\ before' = users
    /\ UNCHANGED <<now, otherThanUsers, update_pending>>

\* lines 106-137: get_user_by_token
GetUserByToken(token) ==
    /\ returned' =
           [op |-> "get_user_by_token", arg |-> token,
            result |-> get_user_by_token(users, token)]
    /\ before' = users
    /\ UNCHANGED <<now, otherThanUsers, users, next_user_id, generated,
                   update_pending>>

\* lines 140-168: get_user_by_id
GetUserById(user_id) ==
    /\ returned' =
           [op |-> "get_user_by_id", arg |-> user_id,
            result |-> get_user_by_id(users, user_id)]
    /\ before' = users
    /\ UNCHANGED <<now, otherThanUsers, users, next_user_id, generated,
                   update_pending>>

\* lines 171-199: get_all_users
GetAllUsers ==
    /\ \E order \in NewestFirst(users) :
           returned' =
               [op |-> "get_all_users", arg |-> 0,
                result |-> [i \in DOMAIN users |-> User(users[order[i]])]]
    /\ before' = users
    /\ UNCHANGED <<now, otherThanUsers, users, next_user_id, generated,
                   update_pending>>

\* lines 202-232: update_user: with no field supplied it returns what
\* get_user_by_id returns; otherwise the UPDATE runs and the read of line
\* 235 is awaited
UpdateUser(user_id, user_update) ==
    /\ update_pending = 0
    /\ IF user_update.supplied = {}
       THEN /\ returned' =
                   [op |-> "update_user",
                    arg |-> [user_id |-> user_id, user_update |-> user_update],
                    result |-> get_user_by_id(users, user_id)]
            /\ UNCHANGED <<users, update_pending>>
       ELSE /\ users' =
                   WhereId(users, user_id,
                           [i \in DOMAIN users |->
                               UpdateRow(users[i], user_update, now)])
            /\ update_pending' = user_id
            /\ returned' =
                   [op |-> "update_user.execute",
                    arg |-> [user_id |-> user_id, user_update |-> user_update],
                    result |-> 0]
    /\ before' = users
    /\ UNCHANGED <<now, otherThanUsers, next_user_id, generated>>

\* line 235: return await get_user_by_id(user_id)
UpdateUserReturns ==
    /\ update_pending # 0
    /\ returned' =
           [op |-> "update_user.return", arg |-> update_pending,
            result |-> get_user_by_id(users, update_pending)]
    /\ update_pending' = 0
    /\ before' = users
    /\ UNCHANGED <<now, otherThanUsers, users, next_user_id, generated>>

\* lines 238-248: delete_user
DeleteUser(user_id) ==
    /\ users' = SelectSeq(users, LAMBDA row : row.id # user_id)
    /\ returned' =
           [op |-> "delete_user", arg |-> user_id,
            result |-> FetchById(users, user_id) # NoUser]
    /\ before' = users
    /\ UNCHANGED <<now, otherThanUsers, next_user_id, generated,
                   update_pending>>

\* lines 251-270: regenerate_user_token
RegenerateUserToken(user_id) ==
    /\ generated < MaxTokens
    /\ LET new_token == generate_user_token
       IN  /\ users' =
                  WhereId(users, user_id,
                          [i \in DOMAIN users |->
                              SetToken(users[i], new_token, now)])
           /\ returned' =
                  [op |-> "regenerate_user_token", arg |-> user_id,
                   result |-> new_token]
    /\ generated' = generated + 1
    /\ before' = users
    /\ UNCHANGED <<now, otherThanUsers, next_user_id, update_pending>>

\* lines 273-279: validate_user_token
ValidateUserToken(token) ==
    /\ returned' =
           [op |-> "validate_user_token", arg |-> token,
            result |-> validate_user_token(users, token)]
    /\ before' = users
    /\ UNCHANGED <<now, otherThanUsers, users, next_user_id, generated,
                   update_pending>>

\* the stored config text of an account is damaged outside the program
CorruptStoredConfig(user_id) ==
    /\ FetchById(users, user_id) # NoUser
    /\ FetchById(users, user_id).config # Garbage
    /\ users' =
           WhereId(users, user_id,
                   [i \in DOMAIN users |-> [users[i] EXCEPT !.config = Garbage]])
    /\ returned' = NoReturn
    /\ before' = users
    /\ UNCHANGED <<now, otherThanUsers, next_user_id, generated,
                   update_pending>>

\* time passes
TickUsers ==
    /\ now + 1 <= MaxUserTime
    /\ now' = now + 1
    /\ returned' = NoReturn
    /\ before' = users
    /\ UNCHANGED <<otherThanUsers, users, next_user_id, generated,
                   update_pending>>

UserNext ==
    \/ \E username \in Usernames, config \in {"None", CustomConfig} :
           CreateUser(username, config)
    \/ \E token \in EmptyToken..UnknownToken : GetUserByToken(token)
    \/ \E user_id \in UserIds : GetUserById(user_id)
    \/ GetAllUsers
    \/ \E user_id \in UserIds, user_update \in UserUpdates :
           UpdateUser(user_id, user_update)
    \/ UpdateUserReturns
    \/ \E user_id \in UserIds : DeleteUser(user_id)
    \/ \E user_id \in UserIds : RegenerateUserToken(user_id)
    \/ \E token \in EmptyToken..UnknownToken : ValidateUserToken(token)
    \/ \E user_id \in UserIds : CorruptStoredConfig(user_id)
    \/ TickUsers

(***************************************************************************)
(* The specifications: the stream endpoint (Spec) and the same with the    *)
(* marker's history recorded (MarkerSpec); the monitor's connections on an *)
(* initialized monitor (MonitorSpec), its startup (StartupSpec), its sync  *)
(* loop and reset_session (SessionSpec), concurrent start_connection calls *)
(* (TrackSpec), its shutdown (ShutdownSpec), its sync loop from the first  *)
(* start_connection on (SyncSpec), its startup over stored tables with     *)
(* traffic (RestartSpec); the log handler (LogSpec) and the same with a    *)
(* queue longer than a batch (BacklogSpec); the accounts (UserSpec).       *)
(***************************************************************************)
StreamIdle ==
    /\ StreamInit
    /\ torrent_cache = [m \in Media |-> {}]

Init ==
    /\ now = 0
    /\ StreamInit
    /\ MonitorFresh
    /\ LogFresh
    /\ UsersFresh

Next == StreamNext

Spec == Init /\ [][Next]_vars

\* the requests with the marker's history recorded, the handlers serving one
\* request after the other
MarkerNext ==
    \/ \E r \in Requests, m \in Media, svc \in Services : Arrive(r, m, svc)
    \/ \E r \in Requests : MetadataFound(r)
    \/ \E r \in Requests : CacheLoaded(r)
    \/ \E r \in Requests : FirstQueryRecorded(r)
    \/ \E r \in Requests : Wake(r)
    \/ \E r \in Requests : PollQueryRecorded(r)
    \/ \E r \in Requests : RecheckCache(r)
    \/ \E r \in Requests : InsertMarkerRecorded(r)
    \/ \E r \in Requests, found \in SUBSET InfoHashes : ScrapeReturns(r, found)
    \/ \E r \in Requests : SearchRaises(r)
    \/ \E r \in Requests : AvailabilityReturns(r)
    \/ \E r \in Requests, ranked \in Rankings(InfoHashes) : Respond(r, ranked)
    \/ \E r \in Requests, m \in Media : RunBackgroundTaskRecorded(r, m)
    \/ \E r \in Requests : Depart(r)
    \/ \E d \in TickSteps : Tick(d)

MarkerSpec == Init /\ [][MarkerNext]_vars

MonitorInit ==
    /\ now = 0
    /\ StreamIdle
    /\ MonitorInitialized
    /\ LogFresh
    /\ UsersFresh

MonitorSpec == MonitorInit /\ [][MonitorNext]_vars

\* the tables a run of the program may have left
StoredSession ==
    [session_start |-> 0, session_bytes |-> 5, peak_concurrent |-> 1]

StartupInit ==
    /\ now = 0
    /\ StreamIdle
    /\ MonitorMemory
    /\ \/ MonitorTables(NoRow, NoSession)
       \/ MonitorTables(5, StoredSession)
    /\ LogFresh
    /\ UsersFresh

StartupNext ==
    \/ Initialize
    \/ \E c \in Callers, id \in ConnIds, ip \in Ips : StartConnection(c, id, ip)
    \/ \E p \in Procs, ok \in BOOLEAN : InitTotalDone(p, ok)
    \/ \E p \in Procs, ok \in BOOLEAN : InitSessionDone(p, ok)
    \/ \E p \in Procs, ok \in BOOLEAN : InitInsertDone(p, ok)
    \/ \E c \in Callers, ok \in BOOLEAN : TrackUpdateDone(c, ok)
    \/ \E c \in Callers, ok \in BOOLEAN : TrackInsertDone(c, ok)
    \/ \E k \in DOMAIN cleanup_loops : CleanupCycle(k)
    \/ TickMonitor

StartupSpec == StartupInit /\ [][StartupNext]_vars

\* the monitor of MonitorInit after start_connection(c1, ip1) has returned
\* (lines 102-119): c1 is registered, the peak is 1, the address has its row
SessionInit ==
    /\ now = 0
    /\ StreamIdle
    /\ connections = <<ConnectionMetrics("c1", "ip1", 0)>>
    /\ global_stats =
           [total_bytes_alltime |-> 0, total_bytes_session |-> 0,
            active_connections |-> 1, peak_concurrent |-> 1]
    /\ last_synced_bytes = 0
    /\ session_start = 0
    /\ cleanup_task = 1
    /\ db_sync_task = 1
    /\ initialized = TRUE
    /\ cleanup_loops =
           <<[pc |-> "sleep", wake |-> CLEANUP_INTERVAL, inactive |-> <<>>,
              metrics |-> NoMetrics]>>
    /\ sync_loops = <<AsleepSync(SYNC_INTERVAL)>>
    /\ mpc = [p \in Procs |-> "idle"]
    /\ call = [p \in Procs |-> NoMetrics]
    /\ init_current_time = [p \in Procs |-> 0]
    /\ bandwidth_stats = NoRow
    /\ session_stats =
           [session_start |-> 0, session_bytes |-> 0, peak_concurrent |-> 0]
    /\ ip_stream_stats =
           [ip \in Ips |->
               IF ip = "ip1"
               THEN [stream_count |-> 1, total_bytes_transferred |-> 0]
               ELSE NoIpRow]
    /\ started = {"c1"}
    /\ reaped = {}
    /\ ledger = [id \in ConnIds |->
                    [state |-> "live", bytes |-> 0, ip |-> "none",
                     by |-> "none", flushed |-> 0]]
    /\ loaded = 1
    /\ AdminFresh
    /\ LogFresh
    /\ UsersFresh

\* traffic on the connection, the sync loop and reset_session
SessionNext ==
    \/ \E id \in ConnIds, n \in Chunks : UpdateConnection(id, n)
    \/ \E k \in DOMAIN sync_loops : SyncSnapshot(k)
    \/ \E k \in DOMAIN sync_loops, ok \in BOOLEAN : SyncTotalInsertDone(k, ok)
    \/ \E k \in DOMAIN sync_loops, ok \in BOOLEAN : SyncTotalUpdateDone(k, ok)
    \/ \E k \in DOMAIN sync_loops, ok \in BOOLEAN : SyncSessionUpdateDone(k, ok)
    \/ \E k \in DOMAIN sync_loops, ok \in BOOLEAN : SyncSessionInsertDone(k, ok)
    \/ ResetSession
    \/ \E ok \in BOOLEAN : ResetUpdateDone(ok)
    \/ TickMonitor

SessionSpec == SessionInit /\ [][SessionNext]_vars

\* start_connection called by concurrent request handlers on an initialized
\* monitor, every statement succeeding unless the table refuses it: each
\* member of Procs stands for a handler here
TrackNext ==
    \/ \E c \in Procs, id \in ConnIds, ip \in Ips : StartConnection(c, id, ip)
    \/ \E c \in Procs : TrackUpdateDone(c, TRUE)
    \/ \E c \in Procs : TrackInsertDone(c, TRUE)
    \/ TickMonitor

TrackSpec == MonitorInit /\ [][TrackNext]_vars

\* time passes, up to the first wake of the loops
TickShutdown ==
    /\ now + CLEANUP_INTERVAL <= MaxShutdownTime
    /\ now' = now + CLEANUP_INTERVAL
    /\ UNCHANGED <<monitorVars, otherThanMonitor>>

\* the monitor from construction to shutdown(), every statement succeeding
ShutdownNext ==
    \/ Initialize
    \/ \E c \in Callers, id \in ConnIds, ip \in Ips : StartConnection(c, id, ip)
    \/ \E p \in Procs : InitTotalDone(p, TRUE)
    \/ \E p \in Procs : InitSessionDone(p, TRUE)
    \/ \E p \in Procs : InitInsertDone(p, TRUE)
    \/ \E c \in Callers : TrackUpdateDone(c, TRUE)
    \/ \E c \in Callers : TrackInsertDone(c, TRUE)
    \/ \E k \in DOMAIN cleanup_loops : CleanupCycle(k)
    \/ \E k \in DOMAIN sync_loops : SyncSnapshot(k)
    \/ \E k \in DOMAIN sync_loops : SyncSessionUpdateDone(k, TRUE)
    \/ Shutdown
    \/ TickShutdown

ShutdownSpec == StartupInit /\ [][ShutdownNext]_vars

\* the monitor from its first start_connection on: initialize() with its
\* reads and its INSERT succeeding or raising, traffic, and the sync loop
SyncNext ==
    \/ \E c \in Callers, id \in ConnIds, ip \in Ips : StartConnection(c, id, ip)
    \/ \E c \in Callers, ok \in BOOLEAN : InitTotalDone(c, ok)
    \/ \E c \in Callers, ok \in BOOLEAN : InitSessionDone(c, ok)
    \/ \E c \in Callers, ok \in BOOLEAN : InitInsertDone(c, ok)
    \/ \E c \in Callers : TrackUpdateDone(c, TRUE)
    \/ \E c \in Callers : TrackInsertDone(c, TRUE)
    \/ \E id \in ConnIds, n \in Chunks : UpdateConnection(id, n)
    \/ \E k \in DOMAIN sync_loops : SyncSnapshot(k)
    \/ \E k \in DOMAIN sync_loops, ok \in BOOLEAN : SyncTotalInsertDone(k, ok)
    \/ \E k \in DOMAIN sync_loops, ok \in BOOLEAN : SyncTotalUpdateDone(k, ok)
    \/ \E k \in DOMAIN sync_loops, ok \in BOOLEAN : SyncSessionUpdateDone(k, ok)
    \/ \E k \in DOMAIN sync_loops, ok \in BOOLEAN : SyncSessionInsertDone(k, ok)
    \/ TickShutdown

SyncSpec == StartupInit /\ [][SyncNext]_vars

\* a monitor constructed over the tables of an earlier run, with one byte
\* counted so far
RestartInit ==
    /\ now = 0
    /\ StreamIdle
    /\ MonitorMemory
    /\ MonitorTables(1, [session_start |-> 0, session_bytes |-> 1,
                         peak_concurrent |-> 1])
    /\ LogFresh
    /\ UsersFresh

\* the startup hook and the first start_connection, then traffic, every
\* statement succeeding
RestartNext ==
    \/ Initialize
    \/ \E c \in Callers, id \in ConnIds, ip \in Ips : StartConnection(c, id, ip)
    \/ \E p \in Procs : InitTotalDone(p, TRUE)
    \/ \E p \in Procs : InitSessionDone(p, TRUE)
    \/ \E c \in Callers : TrackUpdateDone(c, TRUE)
    \/ \E c \in Callers : TrackInsertDone(c, TRUE)
    \/ \E id \in ConnIds, n \in Chunks : UpdateConnection(id, n)
    \/ \E c \in Callers, id \in ConnIds : EndConnection(c, id)
    \/ \E c \in Callers : FlushDone(c, TRUE)
    \/ TickShutdown

RestartSpec == RestartInit /\ [][RestartNext]_vars

LogInit ==
    /\ now = 0
    /\ StreamIdle
    /\ MonitorFresh
    /\ LogFresh
    /\ UsersFresh

LogSpec == LogInit /\ [][LogNext]_vars

\* the handler two seconds after initialize() with MaxBacklog entries
\* written in the meantime, numbered up to 0 in the order of their writes
BacklogInit ==
    /\ now = 0
    /\ StreamIdle
    /\ MonitorFresh
    /\ log_database = TRUE
    /\ log_queue = [i \in 1..MaxBacklog |->
                       [message |-> i - MaxBacklog, created |-> 0]]
    /\ log_sync = [pc |-> "sleep", wake |-> 0, batch |-> <<>>, cutoff |-> 0,
                   last |-> "none"]
    /\ persistent_logs = <<>>
    /\ written = 0
    /\ purged = {}
    /\ UsersFresh

\* time passes, from one wake of the loop to the next
TickBacklog ==
    /\ now + LOG_SYNC_INTERVAL <= MaxBacklogTime
    /\ now' = now + LOG_SYNC_INTERVAL
    /\ UNCHANGED <<otherThanLog, logVars>>

BacklogNext ==
    \/ Write
    \/ LogSyncCycle
    \/ LogInsertDone
    \/ LogStatementRaises
    \/ LogDeleteDone
    \/ TickBacklog

BacklogSpec == BacklogInit /\ [][BacklogNext]_vars

UserInit ==
    /\ now = 0
    /\ StreamIdle
    /\ MonitorFresh
    /\ LogFresh
    /\ UsersFresh

UserSpec == UserInit /\ [][UserNext]_vars

(***************************************************************************)
(* Claims about the stream endpoint, checked under Spec.                   *)
(***************************************************************************)
InScrapeBranch(r) == pc[r] \in {"scrape", "availability"}

Searching(m) == {r \in Requests : media_id[r] = m /\ InScrapeBranch(r)}

Carries(name, emoji) == \E i \in DOMAIN name : name[i] = emoji

StreamNames(r) == {response[r][i].name : i \in DOMAIN response[r]}

\* C1: dedup mutual exclusion: while a live marker for a media_id exists, at
\* most one request for that media_id is inside the scrape branch.
C1_DedupMutualExclusion ==
    \A m \in Media :
        Live(ongoing_searches[m], now) => Cardinality(Searching(m)) <= 1

\* C2: fresh marker after expiry: when a request's insert finds an expired,
\* undeleted row for its media_id, an unexpired row for that media_id exists
\* right after the insert.
C2_FreshMarkerAfterExpiry ==
    [][\A r \in Requests :
         (/\ pc[r] = "insert"
          /\ pc'[r] = "scrape"
          /\ ongoing_searches[media_id[r]] # NoRow
          /\ ongoing_searches[media_id[r]] + MARKER_TTL < now)
         => (/\ ongoing_searches'[media_id[r]] # NoRow
             /\ ongoing_searches'[media_id[r]] + MARKER_TTL >= now')]_vars

\* C3: marker expiry is a query-time condition: the first query sends a
\* request to the poll loop exactly when a row with timestamp + 120 >= now
\* exists, and a poll keeps it in the loop exactly when such a row exists;
\* the poll that finds none ends the loop and leaves the stored row alone.
C3_MarkerExpiryAtQueryTime ==
    [][\A r \in Requests :
         LET ts == ongoing_searches[media_id[r]]
             live == ts # NoRow /\ ts + MARKER_TTL >= now
         IN  /\ (pc[r] = "fetch_one" /\ pc'[r] # "fetch_one")
                 => (pc'[r] = "sleep" <=> live)
             /\ (pc[r] = "poll" /\ pc'[r] # "poll")
                 => /\ pc'[r] = (IF live THEN "sleep" ELSE "recheck_cache")
                    /\ ongoing_searches'[media_id[r]] = ts]_vars

\* C3 witness: a request has left the poll loop while the expired row of its
\* media_id is still stored.
C3_Witness ==
    \E r \in Requests :
        /\ pc[r] = "recheck_cache"
        /\ "sleep" \in calls[r]
        /\ ongoing_searches[media_id[r]] # NoRow
        /\ ongoing_searches[media_id[r]] + MARKER_TTL < now

MarkerCalls == {"insert", "add_task", "scrape_torrents", "scrape_done",
                "get_cache_availability", "delete"}

\* C4: a request inserts a marker and scrapes only if its most recent
\* get_cached_torrents left the map empty: after a populated first load it
\* never queries, inserts or deletes a marker nor scrapes; after a populated
\* re-check it neither inserts nor scrapes.
C4_ScrapeOnlyOnEmptyCache ==
    \A r \in Requests :
        LET n == Len(loads[r])
        IN  /\ (calls[r] \cap MarkerCalls # {})
                => (n >= 1 /\ loads[r][n] = "empty")
            /\ (n >= 1 /\ loads[r][1] = "populated")
                => /\ calls[r] = {"get_cached_torrents"}
                   /\ background_tasks[r] = {}
                   /\ pc[r] \in {"rank", "responded"}
            /\ (n = 2 /\ loads[r][2] = "populated")
                => /\ calls[r] \cap MarkerCalls = {}
                   /\ background_tasks[r] = {}
                   /\ cached[r]
                   /\ pc[r] \in {"rank", "responded"}

\* C4 witness: a request polled, found the cache populated on the re-check
\* and has answered.
C4_Witness ==
    \E r \in Requests :
        /\ loads[r] = <<"empty", "populated">>
        /\ pc[r] = "responded"

\* C5: metadata-failure placeholder: a request whose metadata is None
\* answers (no error) with exactly one stream entry, named
\* "[<warning sign>] Comet" and described "Unable to get metadata.", and has
\* read no cache, inserted no marker, scheduled no cleanup and not scraped.
C5_MetadataFailurePlaceholder ==
    \A r \in Requests :
        metadata[r] = "none"
        => /\ pc[r] = "responded"
           /\ Len(response[r]) = 1
           /\ response[r][1].name = <<"[", "U+26A0 U+FE0F", "]", " Comet">>
           /\ response[r][1].description = "Unable to get metadata."
           /\ calls[r] = {}
           /\ loads[r] = <<>>
           /\ background_tasks[r] = {}

\* C5 witness: a request has answered after a metadata failure.
C5_Witness ==
    \E r \in Requests : metadata[r] = "none" /\ response[r] # <<>>

\* C6 as stated: with debridService = "torrent" get_cache_availability is
\* never invoked and every emitted stream name carries the magnet; with any
\* other service every emitted name carries the high-voltage sign and
\* get_cache_availability comes only after the request's own scrape.
C6_DebridSkipOnEveryPath ==
    \A r \in Requests :
        pc[r] # "idle"
        => IF debridService[r] = "torrent"
           THEN /\ "get_cache_availability" \notin calls[r]
                /\ \A nm \in StreamNames(r) : Carries(nm, "U+1F9F2")
           ELSE /\ \A nm \in StreamNames(r) : Carries(nm, "U+26A1")
                /\ "get_cache_availability" \in calls[r]
                    => "scrape_done" \in calls[r]

\* C6 amended: the same, for every emitted stream name other than the
\* metadata-failure placeholder, which carries neither emoji whatever the
\* service.
C6_DebridSkipExceptPlaceholder ==
    \A r \in Requests :
        pc[r] # "idle"
        => /\ IF debridService[r] = "torrent"
              THEN "get_cache_availability" \notin calls[r]
              ELSE "get_cache_availability" \in calls[r]
                   => "scrape_done" \in calls[r]
           /\ \A nm \in StreamNames(r) :
                  IF metadata[r] = "none"
                  THEN ~Carries(nm, "U+1F9F2") /\ ~Carries(nm, "U+26A1")
                  ELSE IF debridService[r] = "torrent"
                       THEN Carries(nm, "U+1F9F2") /\ ~Carries(nm, "U+26A1")
                       ELSE Carries(nm, "U+26A1") /\ ~Carries(nm, "U+1F9F2")

\* C6 witness: a request with debridService = "torrent" has scraped and
\* emitted a stream, and made no get_cache_availability call.
C6_Witness ==
    \E r \in Requests :
        /\ debridService[r] = "torrent"
        /\ "scrape_done" \in calls[r]
        /\ pc[r] = "responded"
        /\ response[r] # <<>>

(***************************************************************************)
(* Claims about the monitor's connections, checked under MonitorSpec.      *)
(***************************************************************************)
Range(seq) == {seq[i] : i \in DOMAIN seq}

\* a cleanup cycle that listed id is still on its way to it
StillToEnd(id) ==
    \E k \in DOMAIN cleanup_loops :
        /\ cleanup_loops[k].pc = "flush"
        /\ id \in Range(cleanup_loops[k].inactive)

RECURSIVE SumOver(_, _)
SumOver(S, f) ==
    IF S = {} THEN 0
    ELSE LET x == CHOOSE y \in S : TRUE
         IN  f[x] + SumOver(S \ {x}, f)

\* the bytes of the ended connections of ip whose write went through
FlushedBytes(ip) ==
    SumOver({id \in ConnIds : ledger[id].ip = ip /\ ledger[id].state = "ok"},
            [id \in ConnIds |-> ledger[id].bytes])

Received(id) ==
    IF id \in Tracked(connections)
    THEN Lookup(connections, id).bytes_transferred
    ELSE ledger[id].bytes

Accounted ==
    /\ global_stats.total_bytes_session
           = SumOver(ConnIds, [id \in ConnIds |-> Received(id)])
    /\ global_stats.total_bytes_alltime = global_stats.total_bytes_session

\* C8: on every step that changes a connection record or a global counter:
\* update_connection(id, n) for a tracked id adds n to the
\* connection's bytes_transferred, to total_bytes_session and to
\* total_bytes_alltime and leaves the other connections alone; for an id
\* that is not tracked it changes no connection record and no global
\* counter; so the two counters are the sum of the chunks of all
\* connections.
C8_ByteAccounting ==
    [][(global_stats' # global_stats \/ connections' # connections) =>
       /\ \A id \in ConnIds, n \in Chunks :
              UpdateConnection(id, n) =>
                  IF id \in Tracked(connections)
                  THEN /\ Lookup(connections', id).bytes_transferred
                              = Lookup(connections, id).bytes_transferred + n
                       /\ \A other \in ConnIds \ {id} :
                              Lookup(connections', other)
                                  = Lookup(connections, other)
                       /\ global_stats'.total_bytes_session
                              = global_stats.total_bytes_session + n
                       /\ global_stats'.total_bytes_alltime
                              = global_stats.total_bytes_alltime + n
                  ELSE /\ connections' = connections
                       /\ global_stats' = global_stats
       /\ Accounted'
      ]_vars

\* the chunks that went to a tracked connection add up to 3, and so do the
\* two counters
C8_Witness ==
    /\ \E id \in ConnIds :
           /\ id \in Tracked(connections)
           /\ Lookup(connections, id).bytes_transferred = 3
    /\ global_stats.total_bytes_session = 3
    /\ global_stats.total_bytes_alltime = 3

(***************************************************************************)
(* Claims about the monitor's initialization, checked under StartupSpec.   *)
(***************************************************************************)
\* C9 as stated: over any interleaving of initialize() and start_connection()
\* calls the stored counters are loaded once and at most one cleanup loop
\* and at most one sync loop are ever started.
C9_InitializeOnce ==
    /\ loaded <= 1
    /\ Len(cleanup_loops) <= 1
    /\ Len(sync_loops) <= 1

(***************************************************************************)
(* Claims about the log handler, checked under LogSpec.                    *)
(***************************************************************************)
\* a sync cycle ends: the loop goes back to sleep
LogCycleEnds ==
    /\ log_sync.pc \in {"sleep", "insert", "delete"}
    /\ log_sync'.pc = "sleep"
    /\ log_sync' # log_sync

Retained(rows, cutoff) ==
    \A i \in DOMAIN rows : rows[i].created >= cutoff

\* C10 as stated: every sync cycle that runs with a database handle and
\* raises no error leaves no persisted row created more than 604,800 seconds
\* before the cycle, whether or not entries were queued.
C10_PurgeEveryCycle ==
    [][(LogCycleEnds /\ log_database /\ log_sync'.last # "failed")
          => Retained(persistent_logs',
                      IF log_sync.pc = "delete"
                      THEN log_sync.cutoff
                      ELSE now - 604800)]_vars

\* C10 amended: a cycle with an empty queue leaves the table alone; a cycle
\* whose inserts succeeded computes its cutoff 604,800 seconds before that
\* moment and its DELETE removes exactly the rows created before the cutoff;
\* no row created at most 604,800 seconds ago is ever removed.
C10_PurgeAfterInserts ==
    [][/\ (LogCycleEnds /\ log_sync'.last = "skipped")
            => persistent_logs' = persistent_logs
       /\ (log_sync.pc = "insert" /\ log_sync'.pc = "delete")
            => log_sync'.cutoff = now - 604800
       /\ (LogCycleEnds /\ log_sync'.last = "done")
            => /\ Retained(persistent_logs', log_sync.cutoff)
               /\ \A i \in DOMAIN persistent_logs :
                      persistent_logs[i].created >= log_sync.cutoff
                          => persistent_logs[i].message
                                 \in Messages(persistent_logs')
       /\ \A i \in DOMAIN persistent_logs :
              persistent_logs[i].created + 604800 >= now
                  => persistent_logs[i].message \in Messages(persistent_logs')
      ]_vars

\* a finished cycle has removed an old row and kept one created a second ago
C10_Witness ==
    /\ log_sync.last = "done"
    /\ purged # {}
    /\ \E i \in DOMAIN persistent_logs : persistent_logs[i].created = now - 1

(***************************************************************************)
(* Claims about the accounts, checked under UserSpec.                      *)
(***************************************************************************)
\* the table holds an enabled account with this token
HoldsEnabled(tbl, token) ==
    \E i \in DOMAIN tbl : tbl[i].token = token /\ tbl[i].enabled

\* the rows of the other accounts are as before the last step
OthersUntouched(user_id) ==
    /\ DOMAIN users = DOMAIN before
    /\ \A i \in DOMAIN before : before[i].id # user_id => users[i] = before[i]

\* C11: validate_user_token(t) returns true exactly when the users table
\* holds an account with token t and enabled = true, in every table that
\* create_user, update_user, delete_user and regenerate_user_token lead to;
\* the empty token yields false.
C11_ValidateIffEnabledAccount ==
    /\ returned.op = "validate_user_token"
           => /\ returned.result = HoldsEnabled(users, returned.arg)
              /\ returned.arg = EmptyToken => returned.result = FALSE
    /\ \A token \in EmptyToken..UnknownToken :
           validate_user_token(users, token)
               = (token # EmptyToken /\ HoldsEnabled(users, token))

\* a token was regenerated, its account updated, and it validates
C11_Witness ==
    /\ returned.op = "validate_user_token"
    /\ returned.result = TRUE
    /\ returned.arg > 1
    /\ FetchByToken(users, returned.arg).username = "bob"

\* C12: right after update_user(id, enabled = false) on an existing account
\* get_user_by_token and validate_user_token for its token give absent and
\* false, get_user_by_id gives the record with enabled = false and username,
\* token, config and created_at as before; right after update_user(id,
\* enabled = true) the token validates again.
C12_SoftDisable ==
    (/\ returned.op = "update_user.execute"
     /\ returned.arg.user_update.supplied = {"enabled"}
     /\ FetchById(before, returned.arg.user_id) # NoUser)
        => LET old == FetchById(before, returned.arg.user_id)
               record == get_user_by_id(users, old.id)
           IN  /\ record.username = User(old).username
               /\ record.token = old.token
               /\ record.config = User(old).config
               /\ record.created_at = old.created_at
               /\ record.enabled = returned.arg.user_update.enabled
               /\ IF returned.arg.user_update.enabled
                  THEN /\ validate_user_token(users, old.token)
                       /\ get_user_by_token(users, old.token) = record
                  ELSE /\ ~validate_user_token(users, old.token)
                       /\ get_user_by_token(users, old.token) = NoUser

\* an enabled account has just been disabled
C12_Witness ==
    /\ returned.op = "update_user.execute"
    /\ returned.arg.user_update.supplied = {"enabled"}
    /\ ~returned.arg.user_update.enabled
    /\ FetchById(before, returned.arg.user_id) # NoUser
    /\ FetchById(before, returned.arg.user_id).enabled

\* C13: update_user with no field supplied leaves the users table as it is
\* and returns the current record, or absent for an unknown id; with fields
\* supplied the UPDATE sets the supplied fields and updated_at and leaves
\* token, created_at, the fields not supplied and the other rows as they
\* were.
C13_UpdateFrame ==
    /\ returned.op = "update_user"
           => /\ returned.arg.user_update.supplied = {}
              /\ users = before
              /\ returned.result = get_user_by_id(users, returned.arg.user_id)
              /\ FetchById(users, returned.arg.user_id) = NoUser
                     => returned.result = NoUser
    /\ returned.op = "update_user.execute"
           => LET user_id == returned.arg.user_id
                  u == returned.arg.user_update
                  old == FetchById(before, user_id)
                  new == FetchById(users, user_id)
              IN  /\ u.supplied # {}
                  /\ OthersUntouched(user_id)
                  /\ old = NoUser => users = before
                  /\ old # NoUser =>
                        /\ new.id = old.id
                        /\ new.token = old.token
                        /\ new.created_at = old.created_at
                        /\ new.updated_at = now
                        /\ new.username = IF "username" \in u.supplied
                                          THEN u.username ELSE old.username
                        /\ new.config = IF "config" \in u.supplied
                                        THEN dumps(u.config) ELSE old.config
                        /\ new.enabled = IF "enabled" \in u.supplied
                                         THEN u.enabled ELSE old.enabled

\* update_user with no field returned a record whose updated_at is in the
\* past
C13_Witness ==
    /\ returned.op = "update_user"
    /\ returned.result # NoUser
    /\ returned.result.updated_at < now

\* C14: regenerate_user_token(id) for an id with no account returns a token
\* no account holds, leaves the users table as it is, and the token does
\* not validate; for an existing account the stored token becomes the
\* returned one, updated_at is refreshed, nothing else changes and the
\* previous token resolves to no account.
C14_RegenerateToken ==
    returned.op = "regenerate_user_token"
        => LET old == FetchById(before, returned.arg)
               new == FetchById(users, returned.arg)
           IN  /\ \A i \in DOMAIN before : before[i].token # returned.result
               /\ OthersUntouched(returned.arg)
               /\ IF old = NoUser
                  THEN /\ users = before
                       /\ ~validate_user_token(users, returned.result)
                  ELSE /\ new =
                              [old EXCEPT !.token = returned.result,
                                          !.updated_at = now]
                       /\ get_user_by_token(users, old.token) = NoUser
                       /\ ~validate_user_token(users, old.token)

\* a token was regenerated for an id that matches none of the accounts
C14_Witness ==
    /\ returned.op = "regenerate_user_token"
    /\ users # <<>>
    /\ FetchById(users, returned.arg) = NoUser

\* C15: create_user with no config stores the default configuration and
\* get_user_by_id and get_user_by_token return it; an account whose stored
\* config text does not parse is returned by get_user_by_token,
\* get_user_by_id and get_all_users with the default configuration, and the
\* reads leave the table as it is.
C15_ConfigFallback ==
    /\ (returned.op = "create_user" /\ returned.arg.config = "None")
           => /\ returned.result.config = default_config
              /\ get_user_by_id(users, returned.result.id).config
                     = default_config
              /\ get_user_by_token(users, returned.result.token).config
                     = default_config
    /\ \A i \in DOMAIN users :
           users[i].config = Garbage
               => /\ get_user_by_id(users, users[i].id)
                         = [users[i] EXCEPT !.config = default_config]
                  /\ users[i].enabled
                         => get_user_by_token(users, users[i].token)
                                = [users[i] EXCEPT !.config = default_config]
    /\ returned.op \in {"get_user_by_token", "get_user_by_id", "get_all_users"}
           => users = before
    /\ returned.op = "get_user_by_id"
           => returned.result = get_user_by_id(users, returned.arg)
    /\ returned.op = "get_user_by_token"
           => returned.result = get_user_by_token(users, returned.arg)
    /\ returned.op = "get_all_users"
           => /\ Len(returned.result) = Len(users)
              /\ \A i \in DOMAIN users :
                    \E j \in DOMAIN returned.result :
                        returned.result[j]
                            = [users[i] EXCEPT
                                  !.config = IF users[i].config = Garbage
                                             THEN default_config
                                             ELSE users[i].config[2]]

\* get_all_users returned an account whose stored config does not parse
C15_Witness ==
    /\ returned.op = "get_all_users"
    /\ \E i \in DOMAIN users :
           /\ users[i].config = Garbage
           /\ returned.result[i].config = default_config

(***************************************************************************)
(* C16.  reset_session: once reset_session() has completed without a       *)
(* storage error the session_stats row holds the new session_start, and    *)
(* no sync cycle writes to the row, after that completion, session bytes   *)
(* or a peak it read before the reset zeroed them.                         *)
(***************************************************************************)
C16_ResetSession ==
    /\ (resets > 0 /\ resets_done = resets /\ session_stats # NoSession)
           => session_stats.session_start = session_start
    /\ session_written.epoch < session_written.resets_done
           => /\ session_written.session_bytes = 0
              /\ session_written.peak_concurrent = 0

(***************************************************************************)
(* C17.  Per-IP stream counting: when n start_connection calls for the     *)
(* address ip1 have returned, and none is under way, ip_stream_stats holds *)
(* the row of ip1 with stream_count = n.  (Every call of the model is for  *)
(* ip1 and has a connection id of its own, so n is the size of started.)   *)
(***************************************************************************)
C17_PerIpStreamCount ==
    (started # {} /\ \A p \in Procs : mpc[p] = "idle")
        => /\ ip_stream_stats["ip1"] # NoIpRow
           /\ ip_stream_stats["ip1"].stream_count = Cardinality(started)

(***************************************************************************)
(* C18.  shutdown() cancels both background loops: once shutdown() has     *)
(* returned, every cleanup loop and every sync loop that was started       *)
(* before it stays as shutdown() left it: none of them takes a step.       *)
(***************************************************************************)
C18_ShutdownStopsLoops ==
    shut_down.returned
        => /\ \A k \in DOMAIN shut_down.cleanup_loops :
                  cleanup_loops[k] = shut_down.cleanup_loops[k]
           /\ \A k \in DOMAIN shut_down.sync_loops :
                  sync_loops[k] = shut_down.sync_loops[k]

(***************************************************************************)
(* C19.  An ongoing_searches row is deleted only by the deferred cleanup   *)
(* of the request whose INSERT stored it, after that request has produced  *)
(* its response: in every step that removes the row of a media id, the     *)
(* request that stored it has responded and it is its background task that *)
(* ran.                                                                    *)
(***************************************************************************)
C19_MarkerDeletedByOwner ==
    [][\A m \in Media :
          (ongoing_searches[m] # NoRow /\ ongoing_searches'[m] = NoRow)
              => /\ inserted_by[m] \in Requests
                 /\ pc[inserted_by[m]] = "responded"
                 /\ background_tasks'[inserted_by[m]]
                        # background_tasks[inserted_by[m]]]_vars

\* the requests inside the poll loop of lines 84-89
Polling == {r \in Requests : polled[r] # NotPolling}

(***************************************************************************)
(* C20.  Bounded polling, as claimed: no query of the poll loop that runs  *)
(* more than 120 seconds after the request started polling finds a live    *)
(* row, so the request leaves the loop at the latest at its next query,    *)
(* 120 + 10 seconds after it started.                                      *)
(***************************************************************************)
C20_PollBoundedFromStart ==
    \A r \in Polling : polled[r].last <= polled[r].start + MARKER_TTL

(***************************************************************************)
(* C20, amended.  A query of the poll loop keeps the request in the loop   *)
(* only if it runs at most 120 seconds after the timestamp of the row it   *)
(* finds; when that row is no newer than the start of the polling, the     *)
(* query runs at most 120 seconds after the start.                         *)
(***************************************************************************)
C20_PollBoundedByMarker ==
    \A r \in Polling :
        /\ polled[r].last <= polled[r].timestamp + MARKER_TTL
        /\ polled[r].timestamp <= polled[r].start
               => polled[r].last <= polled[r].start + MARKER_TTL

\* a request polls on a row inserted after it started polling, more than 120
\* seconds after that start
C20_Witness ==
    \E r \in Polling :
        /\ pc[r] = "sleep"
        /\ polled[r].timestamp > polled[r].start
        /\ polled[r].last > polled[r].start + MARKER_TTL

(***************************************************************************)
(* Claims about the monitor's lock, its sync cycle and its counters.       *)
(***************************************************************************)
\* the statements at which a coroutine of the monitor is suspended on a
\* storage call: lines 59, 73, 84 (initialize), 197, 206 (_track_ip_stream),
\* 221 (_update_ip_bytes), 270, 276, 286, 293 (the sync cycle), 313
\* (reset_session)
StorageAwaits ==
    {"init_total", "init_session", "init_insert", "track_update",
     "track_insert", "flush", "total_insert", "total_update",
     "session_update", "session_insert", "update"}

\* the statement each coroutine of the monitor is at
Positions ==
    {mpc[p] : p \in Procs}
        \cup {cleanup_loops[k].pc : k \in DOMAIN cleanup_loops}
        \cup {sync_loops[k].pc : k \in DOMAIN sync_loops}
        \cup {reset_call.pc}

\* the awaits that lie inside a `with self._lock:` block: line 136, the
\* await of _update_ip_bytes, inside the block of lines 129-150; every other
\* await follows the end of its block (102-116, 240-245, 259-262, 281-282,
\* 306-309)
within_lock(position) == position = "flush"

(***************************************************************************)
(* C21.  No operation of the monitor is suspended on a storage call while  *)
(* it holds the monitor's lock: no coroutine is at an await on storage     *)
(* that lies inside a `with self._lock:` block.                            *)
(***************************************************************************)
C21_NoStorageCallUnderLock ==
    \A position \in Positions \cap StorageAwaits : ~within_lock(position)

\* the sync loop k ends a cycle in this step (back to the sleep of line 257)
SyncCycleEnds(k) ==
    /\ sync_loops[k].pc \notin {"sleep", "cancelled"}
    /\ sync_loops'[k].pc = "sleep"

(***************************************************************************)
(* C22.  Every cycle of the sync loop attempts the UPDATE of the session   *)
(* row, whatever became of the write of the total; and a cycle whose       *)
(* UPDATE of the session row raises nothing leaves the row id = 1 in the   *)
(* table, holding the session bytes and the peak the cycle read under the  *)
(* lock (inserted in the same cycle when the UPDATE found no row).         *)
(***************************************************************************)
C22_SessionRowSyncedEveryCycle ==
    [][\A k \in DOMAIN sync_loops :
          SyncCycleEnds(k)
              => /\ sync_loops[k].pc \in {"session_update", "session_insert"}
                 /\ sync_loops[k].pc = "session_update"
                        => /\ session_stats' # NoSession
                           /\ session_stats'.session_bytes
                                  = sync_loops[k].session_bytes
                           /\ session_stats'.peak_concurrent
                                  = sync_loops[k].peak_concurrent]_vars

(***************************************************************************)
(* C24.  Peak watermark: in every reachable state of the monitor the peak  *)
(* is at least the number of active connections, and that number is the    *)
(* number of connections in the live set.                                  *)
(***************************************************************************)
C24_PeakWatermark ==
    /\ global_stats.peak_concurrent >= global_stats.active_connections
    /\ global_stats.active_connections = Len(connections)

(***************************************************************************)
(* C25.  The all-time byte counter in memory never decreases: after every  *)
(* step of the monitor total_bytes_alltime is at least what it was before; *)
(* and so is the session total in every step that is not a reset_session.  *)
(***************************************************************************)
C25_TotalNeverDecreases ==
    [][/\ global_stats'.total_bytes_alltime >= global_stats.total_bytes_alltime
       /\ resets' = resets
              => global_stats'.total_bytes_session
                     >= global_stats.total_bytes_session]_vars

(***************************************************************************)
(* C27.  The cleanup cycle ends only connections that are stale at the     *)
(* moment they are ended: every connection that a step of a cleanup loop   *)
(* takes out of the live set has had no update for more than 60 seconds    *)
(* when that step runs.                                                    *)
(***************************************************************************)
C27_CleanupEndsOnlyStale ==
    [][cleanup_loops' # cleanup_loops
          => \A id \in Tracked(connections) \ Tracked(connections') :
                 IsInactive(Lookup(connections, id), now)]_vars

(***************************************************************************)
(* Claims about the log handler's queue.                                   *)
(***************************************************************************)
\* the serial numbers of a sequence of entries, in its order
Serials(entries) == [i \in DOMAIN entries |-> entries[i].message]

\* the entries that have left no place yet: the rest of the batch of the
\* cycle under way, then the queue
Waiting == Serials(log_sync.batch \o log_queue)

Increasing(serials) ==
    \A i, j \in DOMAIN serials : i < j => serials[i] < serials[j]

\* the newest entries and only them, oldest first: serials[Len] is the last
\* entry written
NewestInOrder(serials) ==
    \A i \in DOMAIN serials : serials[i] = written - Len(serials) + i

Min(a, b) == IF a <= b THEN a ELSE b

Copies(entries, m) ==
    Cardinality({i \in DOMAIN entries : entries[i].message = m})

(***************************************************************************)
(* C26.  No log entry is lost by the durable sink: every entry that write  *)
(* appended to the queue is, at every later time, in exactly one place:    *)
(* still in the queue, in the batch of the sync cycle under way, in        *)
(* persistent_logs, or purged from it by the retention DELETE.             *)
(***************************************************************************)
C26_NoEntryLost ==
    \A m \in 1..written :
        Copies(log_queue, m) + Copies(log_sync.batch, m)
            + Copies(persistent_logs, m) + (IF m \in purged THEN 1 ELSE 0) = 1

====
